---- MODULE Spec2Model ----
(***************************************************************************)
(* Order fulfilment (zavora-ops), cost allocation and AP settlement        *)
(* (zavora-gateway) and the InventoryPosition type (zavora-inventory) of   *)
(* zavora-erp, as a state machine over the relational tables they write.   *)
(*                                                                         *)
(* Money and unit costs are integers in units of 0.0001 (every amount the  *)
(* code stores went through round_dp(4)).  Quantities are integers in      *)
(* units of 1/QtyScale, so a product quantity * price can need rounding.   *)
(* A fulfilment unit (handle_message -> process_order) is one database     *)
(* transaction: its writes are collected in unit.tx_* and reach the        *)
(* committed tables only at its commit step; a failing statement drops     *)
(* them (rollback).                                                        *)
(***************************************************************************)
EXTENDS Integers, Sequences, FiniteSets, TLC

\* ------------------------------------------------------------------ bounds
NumOrders == 3
MaxDeliveries == 2
MaxQty == 2
QtyScale == 2
MaxTime == 1
MaxOps == 4
MaxSeq == 5
MaxFinSeq == 7
MaxCost == 3
MaxGovOrders == 2
NumWorkers == 2

\* --------------------------------------------------------- program constants
MAX_RETRIES_LIMIT == 5
PROCUREMENT_MARKUP_PCT == 60
SERVICE_DELIVERY_COST_PCT == 30

AR_ACCOUNT == "1100"
INVENTORY_ACCOUNT == "1300"
REVENUE_ACCOUNT == "4000"
COGS_ACCOUNT == "5000"
CASH_ACCOUNT == "1000"
SERVICE_COST_CLEARING_ACCOUNT == "2100"
PAYROLL_EXPENSE_ACCOUNT == "5100"
PAYROLL_AP_ACCOUNT == "2300"

SKILL_STATUS_SUCCESS == "SUCCESS"
SKILL_STATUS_FAILED == "FAILED"
SKILL_STATUS_ESCALATED == "ESCALATED"

\* ------------------------------------------------------------------ domains
OrderIds == 1..NumOrders
TxnTypes == {"PRODUCT", "SERVICE"}
Scopes == {"PRODUCT", "SERVICE", "ANY"}
Items == {"SKU-1", "SKU-FAILPRIMARY", "SKU-FAILALL"}
Quantities == 1..MaxQty
Prices == {5, 15}
Times == 0..MaxTime
NoOrder == 0
NoSkill == "-"

\* ------------------------------------------------------------- arithmetic
\* Decimal::round_dp(4) of n/d amount units: midpoint goes to the even neighbour.
RoundHalfEven(n, d) ==
    LET q == n \div d
        r == n % d
    IN  IF 2 * r < d THEN q
        ELSE IF 2 * r > d THEN q + 1
        ELSE IF q % 2 = 0 THEN q ELSE q + 1

RECURSIVE SumTo(_, _)
SumTo(f, n) == IF n = 0 THEN 0 ELSE f[n] + SumTo(f, n - 1)

RECURSIVE SumSeq(_, _)
SumSeq(s, field) ==
    IF s = << >> THEN 0 ELSE Head(s)[field] + SumSeq(Tail(s), field)

\* ------------------------------------------------------------------- state
VARIABLES
    orders,          \* orders table: id -> row
    routing,         \* skill_routing_policies: <<intent, scope>> -> row
    registry,        \* skill_registry: skill -> row
    positions,       \* inventory_positions: item_code -> row
    movements,       \* inventory_movements (append-only)
    journals,        \* journals (append-only, except allocate_costs' delete)
    settlements,     \* settlements
    invocations,     \* skill_invocations
    escalations,     \* governance_escalations
    costs,           \* finops_token_usage / finops_cloud_costs rows
    allocations,     \* finops_cost_allocations
    obligations,     \* ap_obligations
    subledger,       \* ap_subledger_entries
    reconciliations, \* finops_period_reconciliations: period -> row
    seqno,           \* rows and transactions numbered so far (fresh ids, posted_at stamps)
    response,        \* what the last gateway handler returned
    unit,            \* the ops worker's fulfilment unit in flight (its transaction)
    deliveries,      \* OrderCreated deliveries handled so far, per order
    seeded,          \* inventory_positions as seeded before the first order
    horizon,         \* the last row number the run may hand out
    allocRuns,            \* concurrent allocate_costs transactions: run -> transaction state
    settleCalls,     \* concurrent settle_ap transactions: call -> transaction state
    workers,         \* the units of concurrent ops workers: worker -> transaction state
    freezes,         \* governance_freeze_controls: action_type -> is_frozen
    thresholds,      \* governance_thresholds: action_type -> row
    created,         \* OrderCreated events published on orders.created
    dispatching,     \* orders whose gateway handler has committed and not yet published
    published,       \* OrderFulfilled events published on orders.fulfilled
    now,             \* the clock (Utc::now)
    ip,              \* a value of the zavora-inventory InventoryPosition type
    ipOps            \* receive/issue calls made on ip

opsTables == <<positions, movements, journals, settlements, invocations, escalations>>
finTables == <<costs, allocations, obligations, subledger, reconciliations, seqno, response>>
staticVars == <<routing, registry, seeded, horizon, workers, allocRuns, settleCalls>>
govVars == <<freezes, thresholds, created, dispatching>>
cfgVars == <<staticVars, govVars>>
ipVars == <<ip, ipOps>>
vars == <<orders, routing, registry, positions, movements, journals, settlements,
          invocations, escalations, costs, allocations, obligations, subledger,
          reconciliations, seqno, response, unit, deliveries, seeded, horizon, published,
          now, ip,
          ipOps, freezes, thresholds, created, dispatching, workers, allocRuns, settleCalls>>

\* --------------------------------------------------------- skill routing
Intents == {"ORDER_EXECUTION_PRODUCT", "ORDER_EXECUTION_SERVICE"}
NullCapability == "NULL"

IntentOf(transaction_type) ==
    IF transaction_type = "PRODUCT" THEN "ORDER_EXECUTION_PRODUCT"
    ELSE "ORDER_EXECUTION_SERVICE"

DefaultCapability(transaction_type) ==
    IF transaction_type = "PRODUCT" THEN "fulfillment-execution" ELSE "service-delivery"

PrimarySkillOf(transaction_type) ==
    IF transaction_type = "PRODUCT" THEN "product-fulfillment" ELSE "service-delivery"

FallbackSkillOf(transaction_type) ==
    IF transaction_type = "PRODUCT" THEN "product-fulfillment-safe"
    ELSE "service-delivery-safe"

SkillIds == {PrimarySkillOf(t) : t \in TxnTypes} \cup {FallbackSkillOf(t) : t \in TxnTypes}

NoPolicy ==
    [configured |-> FALSE, intent |-> "-", capability |-> NullCapability,
     primary_skill_id |-> NoSkill, fallback_skill_id |-> NoSkill,
     max_retries |-> 0, escalation_action_type |-> "-"]

PolicyRow(transaction_type, retries, hasFallback, action) ==
    [configured |-> TRUE, intent |-> IntentOf(transaction_type),
     capability |-> NullCapability,
     primary_skill_id |-> PrimarySkillOf(transaction_type),
     fallback_skill_id |-> IF hasFallback THEN FallbackSkillOf(transaction_type) ELSE NoSkill,
     max_retries |-> retries, escalation_action_type |-> action]

\* (faulty variant: the ANY row is preferred to the exact-scope row)
ResolveSkillRoutingPolicyAnyFirst(transaction_type) ==
    LET intent == IntentOf(transaction_type)
        exact == routing[<<intent, transaction_type>>]
        any == routing[<<intent, "ANY">>]
        row == IF any.configured THEN any ELSE exact
    IN  IF row.configured /\ row.capability = NullCapability
        THEN [row EXCEPT !.capability = DefaultCapability(transaction_type)]
        ELSE row
\* resolve_skill_routing_policy: the exact-scope row, else the ANY row, else
\* "skill routing policy not configured" (configured = FALSE); a NULL capability
\* column becomes the transaction type's default capability.
ResolveSkillRoutingPolicy(transaction_type) ==
    LET intent == IntentOf(transaction_type)
        exact == routing[<<intent, transaction_type>>]
        any == routing[<<intent, "ANY">>]
        row == IF exact.configured THEN exact ELSE any
    IN  IF row.configured /\ row.capability = NullCapability
        THEN [row EXCEPT !.capability = DefaultCapability(transaction_type)]
        ELSE row

\* --------------------------------------------------------- skill registry
InputFields == {"order_id", "intent", "capability", "transaction_type",
                "item_code", "quantity", "unit_price", "currency"}

Unregistered ==
    [registered |-> FALSE, capability |-> "-", approval_status |-> "-",
     required_input_fields |-> {}, required_output_fields |-> {}]

SkillShapes == {"OK", "REVOKED", "DRAFT", "UNREGISTERED", "WRONG_CAPABILITY",
                "MISSING_INPUT", "MISSING_OUTPUT"}

RegistryRow(shape, capability) ==
    IF shape = "UNREGISTERED" THEN Unregistered
    ELSE [registered |-> TRUE,
          capability |-> IF shape = "WRONG_CAPABILITY" THEN "other-capability" ELSE capability,
          approval_status |-> IF shape \in {"REVOKED", "DRAFT"} THEN shape ELSE "APPROVED",
          required_input_fields |->
              IF shape = "MISSING_INPUT" THEN {"order_id", "customer_tier"}
              ELSE {"order_id", "item_code"},
          required_output_fields |->
              IF shape = "MISSING_OUTPUT" THEN {"execution_status", "tracking_ref"}
              ELSE {"execution_status"}]

RegistryOf(primaryShape, fallbackShape) ==
    [s \in SkillIds |->
        LET t == CHOOSE x \in TxnTypes : s \in {PrimarySkillOf(x), FallbackSkillOf(x)}
        IN  RegistryRow(IF s = PrimarySkillOf(t) THEN primaryShape ELSE fallbackShape,
                        DefaultCapability(t))]

\* build_skill_input_payload: the fields of the JSON object; every value is a
\* non-empty string (create_order rejects empty item_code and currency).
BuildSkillInputPayload(order, policy) == InputFields

\* simulate_skill_execution: the item code's failure markers, else the output object.
HasFailAll(item_code) == item_code = "SKU-FAILALL"
HasFailPrimary(item_code) == item_code = "SKU-FAILPRIMARY"

SimulateFails(order, skill_id, fallback_used) ==
    \/ HasFailAll(order.item_code)
    \/ /\ HasFailPrimary(order.item_code)
       /\ \/ order.transaction_type = "PRODUCT" /\ skill_id = "product-fulfillment"
             /\ ~fallback_used
          \/ order.transaction_type = "SERVICE" /\ skill_id = "service-delivery"
             /\ ~fallback_used

SimulateOutput(order) ==
    IF order.transaction_type = "PRODUCT"
    THEN {"execution_status", "fulfillment_mode", "inventory_strategy"}
    ELSE {"execution_status", "delivery_mode", "service_strategy"}

\* validate_required_fields over an object whose present fields are all non-empty.
ValidateRequiredFields(payload, required_fields) == required_fields \subseteq payload

\* (faulty variant: every registered skill is executed)
BoundaryInvokedWhenRegistered(order, policy, skill_id) == registry[skill_id].registered
\* invoke_skill reaches simulate_skill_execution: the skill is registered,
\* APPROVED, of the policy's capability, and the input has its required fields
BoundaryInvoked(order, policy, skill_id) ==
    LET row == registry[skill_id] IN
    /\ row.registered
    /\ row.approval_status = "APPROVED"
    /\ row.capability = policy.capability
    /\ ValidateRequiredFields(BuildSkillInputPayload(order, policy), row.required_input_fields)

\* invoke_skill's verdict: TRUE when failure_reason is None.
InvokeSkillSucceeds(order, policy, skill_id, fallback_used) ==
    LET row == registry[skill_id] IN
    /\ BoundaryInvoked(order, policy, skill_id)
    /\ ~SimulateFails(order, skill_id, fallback_used)
    /\ ValidateRequiredFields(SimulateOutput(order), row.required_output_fields)

InvocationRow(order_id, skill_id, attempt_no, status, fallback_used) ==
    [order_id |-> order_id, skill_id |-> skill_id, attempt_no |-> attempt_no,
     status |-> status, fallback_used |-> fallback_used]

\* (faulty variant: the loop `for _ in 0..policy.max_retries`)
PrimaryAttemptsOffByOne(policy) == policy.max_retries
\* (faulty variant: every retry is itself retried)
PrimaryAttemptsDoubled(policy) == 2 * policy.max_retries + 1
\* the primary loop `for _ in 0..=policy.max_retries`
PrimaryAttempts(policy) == policy.max_retries + 1

\* ---------------------------------------------------- inventory (AVCO)
NoRow == [present |-> FALSE, on_hand |-> 0, avg_cost |-> 0]
PositionRow(on_hand, avg_cost) == [present |-> TRUE, on_hand |-> on_hand, avg_cost |-> avg_cost]

MovementRow(order_id, item_code, movement_type, quantity, unit_cost) ==
    [order_id |-> order_id, item_code |-> item_code, movement_type |-> movement_type,
     quantity |-> quantity, unit_cost |-> unit_cost]

\* (faulty variant: procurement at the selling price)
ProcurementUnitCostAtPrice(unit_price) == unit_price
\* (unit_price * Decimal::new(60, 2)).round_dp(4)
ProcurementUnitCost(unit_price) == RoundHalfEven(unit_price * PROCUREMENT_MARKUP_PCT, 100)

\* (faulty variant: procures half of the shortfall)
ShortageHalf(on_hand, requested_qty) == (requested_qty - on_hand) \div 2
\* requested_qty - on_hand
Shortage(on_hand, requested_qty) == requested_qty - on_hand

\* (faulty variant: the replacement cost instead of the weighted average)
NewAvgReplacementCost(on_hand, avg_cost, shortage, procurement_unit_cost) ==
    procurement_unit_cost
\* ((current_value + incoming_value) / new_qty).round_dp(4)
NewAvg(on_hand, avg_cost, shortage, procurement_unit_cost) ==
    LET current_value == on_hand * avg_cost
        incoming_value == shortage * procurement_unit_cost
        new_qty == on_hand + shortage
    IN  IF new_qty = 0 THEN 0
        ELSE RoundHalfEven(current_value + incoming_value, new_qty)

\* ensure_inventory_for_order: the (on_hand, avg_cost) it returns, the position
\* row it leaves in the transaction and the RECEIPT movement it records, if any.
EnsureInventoryForOrder(row, item_code, requested_qty, unit_price, order_id) ==
    LET on_hand == IF row.present THEN row.on_hand ELSE 0
        avg_cost == IF row.present THEN row.avg_cost ELSE 0
    IN  IF on_hand < requested_qty
        THEN LET shortage == Shortage(on_hand, requested_qty)
                 procurement_unit_cost == ProcurementUnitCost(unit_price)
                 new_qty == on_hand + shortage
                 new_avg == NewAvg(on_hand, avg_cost, shortage, procurement_unit_cost)
             IN  [on_hand |-> new_qty, avg_cost |-> new_avg,
                  position |-> PositionRow(new_qty, new_avg),
                  receipts |-> << MovementRow(order_id, item_code, "RECEIPT", shortage,
                                              procurement_unit_cost) >>]
        ELSE [on_hand |-> on_hand, avg_cost |-> avg_cost,
              position |-> PositionRow(on_hand, avg_cost),
              receipts |-> << >>]

\* (faulty variant: the ratio is left out)
ServiceCogsAtFullPrice(quantity, unit_price) == RoundHalfEven(quantity * unit_price, QtyScale)
\* (quantity * unit_price * service_delivery_cost_ratio()).round_dp(4)
ServiceCogs(quantity, unit_price) ==
    RoundHalfEven(quantity * unit_price * SERVICE_DELIVERY_COST_PCT, 100 * QtyScale)

\* (faulty variant: the cost of one unit, whatever the quantity)
ProductCogsOfOneUnit(quantity, average_cost) == average_cost
\* (quantity * average_cost).round_dp(4)
ProductCogs(quantity, average_cost) == RoundHalfEven(quantity * average_cost, QtyScale)

\* (quantity * unit_price).round_dp(4)
Revenue(order) == RoundHalfEven(order.quantity * order.unit_price, QtyScale)

\* ------------------------------------------------------------ journal
NoPeriod == <<0, 0>>
Memo(ns, period, ref, tail) == [ns |-> ns, period |-> period, ref |-> ref, tail |-> tail]
OpsMemo(text) == Memo("", NoPeriod, 0, text)

JournalRow(order_id, account, debit, credit, memo) ==
    [order_id |-> order_id, account |-> account, debit |-> debit, credit |-> credit,
     memo |-> memo]

\* (faulty variant: the batch without its credit of cogs)
FulfilmentJournalOneSided(order_id, transaction_type, revenue, cogs) ==
    << JournalRow(order_id, AR_ACCOUNT, revenue, 0, OpsMemo("Invoice posted")),
       JournalRow(order_id, REVENUE_ACCOUNT, 0, revenue, OpsMemo("Revenue recognized")),
       JournalRow(order_id, COGS_ACCOUNT, cogs, 0, OpsMemo("COGS recognized")),
       JournalRow(order_id, CASH_ACCOUNT, revenue, 0, OpsMemo("Cash receipt")),
       JournalRow(order_id, AR_ACCOUNT, 0, revenue, OpsMemo("AR settled")) >>
\* (faulty variant: cogs credited to Inventory whatever the transaction type)
FulfilmentJournalInventoryOnly(order_id, transaction_type, revenue, cogs) ==
    << JournalRow(order_id, AR_ACCOUNT, revenue, 0, OpsMemo("Invoice posted")),
       JournalRow(order_id, REVENUE_ACCOUNT, 0, revenue, OpsMemo("Revenue recognized")),
       JournalRow(order_id, COGS_ACCOUNT, cogs, 0, OpsMemo("COGS recognized")),
       JournalRow(order_id, INVENTORY_ACCOUNT, 0, cogs, OpsMemo("Inventory relieved")),
       JournalRow(order_id, CASH_ACCOUNT, revenue, 0, OpsMemo("Cash receipt")),
       JournalRow(order_id, AR_ACCOUNT, 0, revenue, OpsMemo("AR settled")) >>
\* process_order's six insert_journal calls
FulfilmentJournal(order_id, transaction_type, revenue, cogs) ==
    << JournalRow(order_id, AR_ACCOUNT, revenue, 0, OpsMemo("Invoice posted")),
       JournalRow(order_id, REVENUE_ACCOUNT, 0, revenue, OpsMemo("Revenue recognized")),
       JournalRow(order_id, COGS_ACCOUNT, cogs, 0, OpsMemo("COGS recognized")),
       IF transaction_type = "PRODUCT"
       THEN JournalRow(order_id, INVENTORY_ACCOUNT, 0, cogs, OpsMemo("Inventory relieved"))
       ELSE JournalRow(order_id, SERVICE_COST_CLEARING_ACCOUNT, 0, cogs,
                       OpsMemo("Service delivery cost recognized")),
       JournalRow(order_id, CASH_ACCOUNT, revenue, 0, OpsMemo("Cash receipt")),
       JournalRow(order_id, AR_ACCOUNT, 0, revenue, OpsMemo("AR settled")) >>

SettlementRow(order_id, amount) == [order_id |-> order_id, amount |-> amount]

\* insert_skill_escalation's row
EscalationRow(order, order_id, policy) ==
    [action_type |-> policy.escalation_action_type, reference_type |-> "ORDER",
     reference_id |-> order_id, status |-> "PENDING",
     reason_code |-> "SKILL_RUNTIME_FAILURE", amount |-> Revenue(order)]

\* --------------------------------------------------- the fulfilment unit
\* pc: where handle_message / process_order stands.  tx_*: the rows written in
\* the open transaction.  attempted and cause are history kept for the claims:
\* the attempts this unit made, how many of them reached
\* simulate_skill_execution, and how it came to "failed".
IdleUnit ==
    [pc |-> "idle", order_id |-> NoOrder, policy |-> NoPolicy, attempt_no |-> 0,
     primary_runs |-> 0, last_skill_id |-> NoSkill, last_fallback_used |-> FALSE,
     cogs |-> 0, tx_invocations |-> << >>, tx_escalations |-> << >>,
     tx_movements |-> << >>, tx_journals |-> << >>, tx_position |-> NoRow,
     attempted |-> << >>, boundary_calls |-> 0, cause |-> "-"]

ChainPcs == {"primary", "fallback", "escalate"}
LedgerPcs == {"inventory", "journal", "settle"}

\* process_order has returned Err: the transaction is closed and handle_message
\* is about to call mark_order_failed
FailedUnit(cause) ==
    [IdleUnit EXCEPT !.pc = "failed", !.order_id = unit.order_id,
                     !.attempted = unit.attempted, !.cause = cause]

UnitOrder == orders[unit.order_id]

\* handle_message receives OrderCreated{o}; process_order begins the transaction,
\* locks the order row and execute_skill_plan resolves the routing policy.
BeginUnit(o) ==
    /\ unit.pc = "idle"
    /\ SumTo(deliveries, NumOrders) < MaxDeliveries
    /\ deliveries' = [deliveries EXCEPT ![o] = @ + 1]
    /\ LET policy == ResolveSkillRoutingPolicy(orders[o].transaction_type) IN
       unit' = IF policy.configured
               THEN [IdleUnit EXCEPT !.pc = "primary", !.order_id = o, !.policy = policy,
                                     !.attempt_no = 1,
                                     !.last_skill_id = policy.primary_skill_id]
               ELSE [IdleUnit EXCEPT !.pc = "failed", !.order_id = o,
                                     !.cause = "not configured"]
    /\ UNCHANGED <<orders, cfgVars, opsTables, finTables, published, now, ipVars>>

\* one iteration of the primary loop of execute_skill_plan
AttemptPrimary ==
    /\ unit.pc = "primary"
    /\ LET policy == unit.policy
           ok == InvokeSkillSucceeds(UnitOrder, policy, policy.primary_skill_id, FALSE)
           row == InvocationRow(unit.order_id, policy.primary_skill_id, unit.attempt_no,
                                IF ok THEN SKILL_STATUS_SUCCESS ELSE SKILL_STATUS_FAILED,
                                FALSE)
           runs == unit.primary_runs + 1
           calls == IF BoundaryInvoked(UnitOrder, policy, policy.primary_skill_id)
                    THEN unit.boundary_calls + 1 ELSE unit.boundary_calls
       IN  unit' = IF ok
                   THEN [unit EXCEPT !.pc = "inventory",
                                     !.tx_invocations = Append(@, row),
                                     !.attempted = Append(@, row),
                                     !.boundary_calls = calls]
                   ELSE [unit EXCEPT !.pc = IF runs < PrimaryAttempts(policy) THEN "primary"
                                            ELSE IF policy.fallback_skill_id # NoSkill
                                                 THEN "fallback" ELSE "escalate",
                                     !.tx_invocations = Append(@, row),
                                     !.attempted = Append(@, row),
                                     !.boundary_calls = calls,
                                     !.primary_runs = runs,
                                     !.last_skill_id = policy.primary_skill_id,
                                     !.last_fallback_used = FALSE,
                                     !.attempt_no = @ + 1]
    /\ UNCHANGED <<orders, cfgVars, opsTables, finTables, deliveries, published, now, ipVars>>

\* (faulty variant: a failed fallback hands back to the primary skill)
AttemptFallbackThenPrimary ==
    /\ unit.pc = "fallback"
    /\ LET policy == unit.policy
           ok == InvokeSkillSucceeds(UnitOrder, policy, policy.fallback_skill_id, TRUE)
           row == InvocationRow(unit.order_id, policy.fallback_skill_id, unit.attempt_no,
                                IF ok THEN SKILL_STATUS_SUCCESS ELSE SKILL_STATUS_FAILED,
                                TRUE)
       IN  unit' = IF ok
                   THEN [unit EXCEPT !.pc = "inventory",
                                     !.tx_invocations = Append(@, row),
                                     !.attempted = Append(@, row)]
                   ELSE [unit EXCEPT !.pc = IF Len(unit.attempted) < MAX_RETRIES_LIMIT + 2
                                            THEN "primary" ELSE "escalate",
                                     !.tx_invocations = Append(@, row),
                                     !.attempted = Append(@, row),
                                     !.last_skill_id = policy.fallback_skill_id,
                                     !.last_fallback_used = TRUE]
    /\ UNCHANGED <<orders, cfgVars, opsTables, finTables, deliveries, published, now, ipVars>>

\* the single fallback attempt of execute_skill_plan
AttemptFallback ==
    /\ unit.pc = "fallback"
    /\ LET policy == unit.policy
           ok == InvokeSkillSucceeds(UnitOrder, policy, policy.fallback_skill_id, TRUE)
           row == InvocationRow(unit.order_id, policy.fallback_skill_id, unit.attempt_no,
                                IF ok THEN SKILL_STATUS_SUCCESS ELSE SKILL_STATUS_FAILED,
                                TRUE)
           calls == IF BoundaryInvoked(UnitOrder, policy, policy.fallback_skill_id)
                    THEN unit.boundary_calls + 1 ELSE unit.boundary_calls
       IN  unit' = IF ok
                   THEN [unit EXCEPT !.pc = "inventory",
                                     !.tx_invocations = Append(@, row),
                                     !.attempted = Append(@, row),
                                     !.boundary_calls = calls]
                   ELSE [unit EXCEPT !.pc = "escalate",
                                     !.tx_invocations = Append(@, row),
                                     !.attempted = Append(@, row),
                                     !.boundary_calls = calls,
                                     !.last_skill_id = policy.fallback_skill_id,
                                     !.last_fallback_used = TRUE]
    /\ UNCHANGED <<orders, cfgVars, opsTables, finTables, deliveries, published, now, ipVars>>

\* (faulty variant: the escalation is inserted twice)
CommitEscalationTwice ==
    /\ unit.pc = "escalate"
    /\ escalations' = escalations \o unit.tx_escalations \o
                          << EscalationRow(UnitOrder, unit.order_id, unit.policy),
                             EscalationRow(UnitOrder, unit.order_id, unit.policy) >>
    /\ invocations' = Append(invocations \o unit.tx_invocations,
                              InvocationRow(unit.order_id, unit.last_skill_id,
                                            unit.attempt_no, SKILL_STATUS_ESCALATED,
                                            unit.last_fallback_used))
    /\ orders' = [orders EXCEPT ![unit.order_id].status = "FAILED"]
    /\ unit' = FailedUnit("escalated")
    /\ UNCHANGED <<cfgVars, positions, movements, journals, settlements, finTables,
                   deliveries, published, now, ipVars>>

\* (faulty variant: the escalating unit also relieves inventory)
CommitEscalationWithIssue ==
    /\ unit.pc = "escalate"
    /\ escalations' = Append(escalations \o unit.tx_escalations,
                              EscalationRow(UnitOrder, unit.order_id, unit.policy))
    /\ invocations' = Append(invocations \o unit.tx_invocations,
                              InvocationRow(unit.order_id, unit.last_skill_id,
                                            unit.attempt_no, SKILL_STATUS_ESCALATED,
                                            unit.last_fallback_used))
    /\ movements' = Append(movements, MovementRow(unit.order_id, UnitOrder.item_code,
                                                  "ISSUE", UnitOrder.quantity, 0))
    /\ orders' = [orders EXCEPT ![unit.order_id].status = "FAILED"]
    /\ unit' = FailedUnit("escalated")
    /\ UNCHANGED <<cfgVars, positions, journals, settlements, finTables,
                   deliveries, published, now, ipVars>>

\* execute_skill_plan escalates; process_order sets the order FAILED and commits
CommitEscalation ==
    /\ unit.pc = "escalate"
    /\ escalations' = Append(escalations \o unit.tx_escalations,
                              EscalationRow(UnitOrder, unit.order_id, unit.policy))
    /\ invocations' = Append(invocations \o unit.tx_invocations,
                              InvocationRow(unit.order_id, unit.last_skill_id,
                                            unit.attempt_no, SKILL_STATUS_ESCALATED,
                                            unit.last_fallback_used))
    /\ orders' = [orders EXCEPT ![unit.order_id].status = "FAILED"]
    /\ unit' = FailedUnit("escalated")
    /\ UNCHANGED <<cfgVars, positions, movements, journals, settlements, finTables,
                   deliveries, published, now, ipVars>>

\* process_order after the chain Succeeded: ensure_inventory_for_order, the
\* on_hand update and the ISSUE movement (PRODUCT), or the service COGS.
FulfilInventory ==
    /\ unit.pc = "inventory"
    /\ LET order == UnitOrder IN
       IF order.transaction_type = "PRODUCT"
       THEN LET got == EnsureInventoryForOrder(positions[order.item_code], order.item_code,
                                               order.quantity, order.unit_price,
                                               unit.order_id)
            IN  IF got.on_hand < order.quantity
                THEN unit' = FailedUnit("inventory still insufficient")
                ELSE unit' = [unit EXCEPT
                        !.pc = "journal",
                        !.cogs = ProductCogs(order.quantity, got.avg_cost),
                        !.tx_position = PositionRow(got.on_hand - order.quantity,
                                                    got.avg_cost),
                        !.tx_movements = got.receipts \o
                            << MovementRow(unit.order_id, order.item_code, "ISSUE",
                                           order.quantity, got.avg_cost) >>]
       ELSE unit' = [unit EXCEPT !.pc = "journal",
                                 !.cogs = ServiceCogs(order.quantity, order.unit_price)]
    /\ UNCHANGED <<orders, cfgVars, opsTables, finTables, deliveries, published, now, ipVars>>

\* process_order's journal batch
PostJournal ==
    /\ unit.pc = "journal"
    /\ unit' = [unit EXCEPT !.pc = "settle",
                            !.tx_journals = FulfilmentJournal(unit.order_id,
                                                UnitOrder.transaction_type,
                                                Revenue(UnitOrder), unit.cogs)]
    /\ UNCHANGED <<orders, cfgVars, opsTables, finTables, deliveries, published, now, ipVars>>

OrderFulfilledEvent(order_id, settled_amount) ==
    [order_id |-> order_id, settled_amount |-> settled_amount]

\* handle_message's Ok arm, after process_order has committed and returned the
\* event: publish_json on orders.fulfilled succeeds, or fails and handle_message
\* returns the error (the main loop logs it)
PublishOrderFulfilled(published_ok) ==
    /\ unit.pc = "publish"
    /\ published' = IF published_ok
                    THEN Append(published,
                                OrderFulfilledEvent(unit.order_id, Revenue(UnitOrder)))
                    ELSE published
    /\ unit' = IdleUnit
    /\ UNCHANGED <<orders, cfgVars, opsTables, finTables, deliveries, now, ipVars>>

\* process_order's settlement row, FULFILLED update and commit; it returns the
\* OrderFulfilled event to handle_message
SettleAndCommit ==
    /\ unit.pc = "settle"
    /\ LET order == UnitOrder
           revenue == Revenue(order)
       IN  /\ settlements' = Append(settlements, SettlementRow(unit.order_id, revenue))
           /\ orders' = [orders EXCEPT ![unit.order_id].status = "FULFILLED",
                                       ![unit.order_id].fulfilled_at = now]
           /\ invocations' = invocations \o unit.tx_invocations
           /\ movements' = movements \o unit.tx_movements
           /\ journals' = journals \o unit.tx_journals
           /\ positions' = IF order.transaction_type = "PRODUCT"
                           THEN [positions EXCEPT ![order.item_code] = unit.tx_position]
                           ELSE positions
    /\ unit' = [IdleUnit EXCEPT !.pc = "publish", !.order_id = unit.order_id,
                                !.attempted = unit.attempted]
    /\ UNCHANGED <<cfgVars, escalations, finTables, deliveries, published, now, ipVars>>

\* (faulty variant: the movements written so far survive the failure)
StorageFailureKeepsMovements ==
    /\ unit.pc \in ChainPcs \cup LedgerPcs
    /\ movements' = movements \o unit.tx_movements
    /\ unit' = FailedUnit(IF unit.pc \in LedgerPcs THEN "storage error after chain"
                          ELSE "storage error in chain")
    /\ UNCHANGED <<orders, cfgVars, positions, journals, settlements, invocations,
                   escalations, finTables, deliveries, published, now, ipVars>>

\* a statement of the open transaction fails (every query is followed by `?`):
\* process_order returns Err and the transaction is dropped without commit
StorageFailure ==
    /\ unit.pc \in ChainPcs \cup LedgerPcs
    /\ unit' = FailedUnit(IF unit.pc \in LedgerPcs THEN "storage error after chain"
                          ELSE "storage error in chain")
    /\ UNCHANGED <<orders, cfgVars, opsTables, finTables, deliveries, published, now,
                   ipVars>>

\* handle_message's Err arm: mark_order_failed
MarkOrderFailed ==
    /\ unit.pc = "failed"
    /\ orders' = [orders EXCEPT ![unit.order_id].status = "FAILED"]
    /\ unit' = IdleUnit
    /\ UNCHANGED <<cfgVars, opsTables, finTables, deliveries, published, now, ipVars>>

\* time passes
Tick ==
    /\ now < MaxTime
    /\ now' = now + 1
    /\ UNCHANGED <<orders, cfgVars, opsTables, finTables, unit, deliveries, published,
                   ipVars>>

\* ------------------------------------------------------ cost allocation
FINOPS_VARIANCE_THRESHOLD_PCT == 5000
FINOPS_ACTOR_IDS == {"payroll-agent", "controller-agent", "board-agent"}
Currencies == {"EUR", "USD"}
CurrencyRank(c) == IF c = "EUR" THEN 0 ELSE 1
SkillRank(s) ==
    CASE s = "product-fulfillment" -> 1
      [] s = "product-fulfillment-safe" -> 2
      [] s = "service-delivery" -> 3
      [] s = "service-delivery-safe" -> 4
      [] OTHER -> 0
NoTime == -1

CostRow(id, source_type, order_id, skill_id, total_cost, currency, occurred_at, period_start, period_end) ==
    [id |-> id, source_type |-> source_type, order_id |-> order_id, skill_id |-> skill_id,
     total_cost |-> total_cost, currency |-> currency, occurred_at |-> occurred_at,
     period_start |-> period_start, period_end |-> period_end]

\* the rows of S as a sequence in ascending key order (ORDER BY)
RECURSIVE SortedSeq(_, _)
SortedSeq(S, key) ==
    IF S = {} THEN << >>
    ELSE LET m == CHOOSE x \in S : \A y \in S : key[x] <= key[y]
         IN  << m >> \o SortedSeq(S \ {m}, key)

RECURSIVE Flatten(_)
Flatten(ss) == IF ss = << >> THEN << >> ELSE Head(ss) \o Flatten(Tail(ss))

InWindow(t, period) == t # NoTime /\ period[1] <= t /\ t < period[2]

\* list_fulfilled_orders
ListFulfilledOrders(period) ==
    LET ids == {o \in OrderIds : /\ orders[o].status = "FULFILLED"
                                 /\ InWindow(orders[o].fulfilled_at, period)}
        rows == {[order_id |-> o, revenue |-> Revenue(orders[o])] : o \in ids}
    IN  SortedSeq(rows, [r \in rows |-> r.order_id])

AllocationInput(source_type, source_id, order_id, amount, currency, skill_id) ==
    [source_type |-> source_type, source_id |-> source_id, order_id |-> order_id,
     amount |-> amount, currency |-> currency, skill_id |-> skill_id]

\* (faulty variant: a record occurring at the period's end is taken too)
TokenAndCloudInputsClosedWindow(source_type, period) ==
    LET rows == {c \in costs : /\ c.source_type = source_type /\ c.occurred_at # NoTime
                               /\ period[1] <= c.occurred_at /\ c.occurred_at <= period[2]}
        sorted == SortedSeq(rows, [c \in rows |-> c.occurred_at * 100 + c.id])
    IN  [i \in 1..Len(sorted) |->
            AllocationInput(source_type, sorted[i].id, sorted[i].order_id,
                            sorted[i].total_cost, sorted[i].currency,
                            IF source_type = "TOKEN" THEN sorted[i].skill_id ELSE NoSkill)]

\* allocate_costs' three input queries, in the order it processes them
TokenAndCloudInputs(source_type, period) ==
    LET rows == {c \in costs : c.source_type = source_type /\ InWindow(c.occurred_at, period)}
        sorted == SortedSeq(rows, [c \in rows |-> c.occurred_at * 100 + c.id])
    IN  [i \in 1..Len(sorted) |->
            AllocationInput(source_type, sorted[i].id, sorted[i].order_id,
                            sorted[i].total_cost, sorted[i].currency,
                            IF source_type = "TOKEN" THEN sorted[i].skill_id ELSE NoSkill)]

RATIO_SCALE == 100000000

\* Timestamps are counted in ticks of half a second (timestamptz is finer than
\* a second); Duration::num_seconds gives the whole seconds of a difference,
\* truncated toward zero.
TicksPerSecond == 2
NumSeconds(ticks) ==
    IF ticks >= 0 THEN ticks \div TicksPerSecond ELSE -((-ticks) \div TicksPerSecond)

SubscriptionInputs(period) ==
    LET rows == {c \in costs : /\ c.source_type = "SUBSCRIPTION"
                               /\ c.period_start < period[2]
                               /\ c.period_end > period[1]}
        sorted == SortedSeq(rows, [c \in rows |-> c.period_start * 100 + c.id])
        Max(a, b) == IF a > b THEN a ELSE b
        Min(a, b) == IF a < b THEN a ELSE b
        Prorated(c) ==
            LET seconds_total == NumSeconds(c.period_end - c.period_start)
                overlap_seconds == NumSeconds(Min(c.period_end, period[2]) -
                                              Max(c.period_start, period[1]))
                overlap_ratio == RoundHalfEven(overlap_seconds * RATIO_SCALE, seconds_total)
            IN  RoundHalfEven(c.total_cost * overlap_ratio, RATIO_SCALE)
        usable == SelectSeq(sorted, LAMBDA c :
                      /\ NumSeconds(c.period_end - c.period_start) > 0
                      /\ NumSeconds(Min(c.period_end, period[2]) -
                                    Max(c.period_start, period[1])) > 0)
    IN  [i \in 1..Len(usable) |->
            AllocationInput("SUBSCRIPTION", usable[i].id, NoOrder, Prorated(usable[i]),
                            usable[i].currency, NoSkill)]

\* the inputs of a window, in the order allocate_costs processes them
AllocationInputs(period) ==
    TokenAndCloudInputs("TOKEN", period) \o TokenAndCloudInputs("CLOUD", period) \o
    SubscriptionInputs(period)

\* the remainder-absorbing loops of allocate_input_cost and split_amount_by_skill:
\* every entry but the last gets its rounded share, the last gets what remains
RECURSIVE ShareOutFrom(_, _, _, _, _)
ShareOutFrom(amount, weights, total_weight, idx, remaining) ==
    IF idx > Len(weights) THEN << >>
    ELSE IF idx = Len(weights)
         THEN << [key |-> weights[idx].key, amount |-> remaining] >>
         ELSE LET provisional == RoundHalfEven(amount * weights[idx].weight, total_weight)
              IN  << [key |-> weights[idx].key, amount |-> provisional] >> \o
                  ShareOutFrom(amount, weights, total_weight, idx + 1,
                               remaining - provisional)

\* (faulty variant: the last entry gets its rounded share like the others)
ShareOutAllRounded(amount, weights) ==
    [i \in 1..Len(weights) |->
        [key |-> weights[i].key,
         amount |-> RoundHalfEven(amount * weights[i].weight, SumSeq(weights, "weight"))]]
ShareOut(amount, weights) ==
    ShareOutFrom(amount, weights, SumSeq(weights, "weight"), 1, amount)

\* the equal split of allocate_input_cost when the total revenue is zero
RECURSIVE EqualSplitFrom(_, _, _, _)
EqualSplitFrom(keys, per_order, idx, remaining) ==
    IF idx > Len(keys) THEN << >>
    ELSE IF idx = Len(keys) THEN << [key |-> keys[idx].key, amount |-> remaining] >>
         ELSE << [key |-> keys[idx].key, amount |-> per_order] >> \o
              EqualSplitFrom(keys, per_order, idx + 1, remaining - per_order)

\* allocate_input_cost: the (order, amount, basis) list
OrderShares(eligible, input) ==
    IF input.order_id # NoOrder
    THEN << [order_id |-> input.order_id, amount |-> input.amount, basis |-> "DIRECT_ORDER"] >>
    ELSE LET weights == [i \in 1..Len(eligible) |->
                            [key |-> eligible[i].order_id, weight |-> eligible[i].revenue]]
             total_revenue == SumSeq(weights, "weight")
             shares == IF total_revenue > 0
                       THEN ShareOut(input.amount, weights)
                       ELSE EqualSplitFrom(weights,
                                RoundHalfEven(input.amount, Len(eligible)), 1, input.amount)
         IN  [i \in 1..Len(shares) |->
                [order_id |-> shares[i].key, amount |-> shares[i].amount,
                 basis |-> "REVENUE_SHARE"]]

\* split_amount_by_skill
SplitAmountBySkill(period, order_id, amount, explicit_skill_id) ==
    IF amount <= 0 THEN << >>
    ELSE IF explicit_skill_id # NoSkill THEN << [key |-> explicit_skill_id, amount |-> amount] >>
    ELSE LET usage == {c \in costs : /\ c.source_type = "TOKEN"
                                     /\ c.order_id = order_id
                                     /\ InWindow(c.occurred_at, period)
                                     /\ c.skill_id # NoSkill}
             SkillCost(sk) == LET rows == {c \in usage : c.skill_id = sk}
                                  sorted == SortedSeq(rows, [c \in rows |-> c.id])
                              IN  SumSeq(sorted, "total_cost")
             skills == {sk \in {c.skill_id : c \in usage} : SkillCost(sk) > 0}
             ordered == SortedSeq(skills, [sk \in skills |-> SkillRank(sk)])
             weighted == [i \in 1..Len(ordered) |->
                            [key |-> ordered[i], weight |-> SkillCost(ordered[i])]]
         IN  IF weighted = << >> THEN << [key |-> NoSkill, amount |-> amount] >>
             ELSE ShareOut(amount, weighted)

AllocationRow(period, order_id, input, skill_id, basis, allocated_cost) ==
    [period |-> period, order_id |-> order_id, source_type |-> input.source_type,
     source_id |-> input.source_id, skill_id |-> skill_id, allocation_basis |-> basis,
     allocated_cost |-> allocated_cost, currency |-> input.currency]

\* (faulty variant: the shares and parts that are not positive are written too)
AllocateInputCostUnfiltered(eligible, period, input) ==
    IF input.amount <= 0 THEN << >>
    ELSE LET shares == OrderShares(eligible, input)
             RowsOf(a) ==
                LET parts == SplitAmountBySkill(period, a.order_id, a.amount, input.skill_id)
                IN  [j \in 1..Len(parts) |->
                        AllocationRow(period, a.order_id, input, parts[j].key, a.basis,
                                      parts[j].amount)]
         IN  Flatten([i \in 1..Len(shares) |-> RowsOf(shares[i])])

\* allocate_input_cost: the finops_cost_allocations rows it inserts
AllocateInputCost(eligible, period, input) ==
    IF input.amount <= 0 THEN << >>
    ELSE LET shares == SelectSeq(OrderShares(eligible, input), LAMBDA a : a.amount > 0)
             RowsOf(a) ==
                LET parts == SelectSeq(SplitAmountBySkill(period, a.order_id, a.amount,
                                                          input.skill_id),
                                       LAMBDA p : p.amount > 0)
                IN  [j \in 1..Len(parts) |->
                        AllocationRow(period, a.order_id, input, parts[j].key, a.basis,
                                      parts[j].amount)]
         IN  Flatten([i \in 1..Len(shares) |-> RowsOf(shares[i])])

\* ----------------------------------------------- payroll journals and AP
PayrollMemo(period, order_id, tail) == Memo("PAYROLL_ALLOC", period, order_id, tail)

ObligationRow(id, order_id, counterparty, amount, currency, status, settled_at) ==
    [id |-> id, order_id |-> order_id, source_type |-> "AUTONOMY_PAYROLL",
     counterparty |-> counterparty, amount |-> amount, currency |-> currency,
     status |-> status, settled_at |-> settled_at]

\* insert_ap_subledger_line; id stands for the row's random uuid
SubledgerRow(id, ap_obligation_id, order_id, entry_type, debit, credit, balance_after, posted_at) ==
    [id |-> id, ap_obligation_id |-> ap_obligation_id, order_id |-> order_id,
     entry_type |-> entry_type, debit |-> debit, credit |-> credit,
     balance_after |-> balance_after, posted_at |-> posted_at]

\* current_ap_obligation_balance: balance_after of the entry that is last by
\* (posted_at, id), 0 when the obligation has no entry
CurrentApObligationBalance(entries, ap_obligation_id) ==
    LET mine == {i \in 1..Len(entries) : entries[i].ap_obligation_id = ap_obligation_id}
    IN  IF mine = {} THEN 0
        ELSE LET last == CHOOSE i \in mine : \A j \in mine :
                            \/ entries[j].posted_at < entries[i].posted_at
                            \/ /\ entries[j].posted_at = entries[i].posted_at
                               /\ entries[j].id <= entries[i].id
             IN  entries[last].balance_after

\* ap_subledger_entries after rows of ap_obligations are deleted: the entries of
\* a deleted obligation go with it (the foreign key's ON DELETE CASCADE)
SubledgerAfterObligationDelete(entries, kept_ids) ==
    SelectSeq(entries, LAMBDA e : e.ap_obligation_id \in kept_ids)

\* the Payroll-Expense / Payroll-Payable pair allocate_costs posts for one order
PayrollPair(period, order_id, rounded_cost) ==
    << JournalRow(order_id, PAYROLL_EXPENSE_ACCOUNT, rounded_cost, 0,
                  PayrollMemo(period, order_id, "DEBIT")),
       JournalRow(order_id, PAYROLL_AP_ACCOUNT, 0, rounded_cost,
                  PayrollMemo(period, order_id, "CREDIT")) >>

\* (faulty variant: the obligation is marked SETTLED without its payment entry)
CreateAndSettleWithoutPayment(id, period, order_id, amount, currency, posted_at, settle_immediately, payment_uuid_first) ==
    LET recognized == SubledgerRow(4 * id + 1, id, order_id, "OBLIGATION_RECOGNIZED", 0,
                                   amount, amount, posted_at)
    IN  IF amount <= 0
        THEN [obligations |-> << >>, subledger |-> << >>, journals |-> << >>]
        ELSE [obligations |-> << ObligationRow(id, order_id, period, amount, currency,
                                    IF settle_immediately THEN "SETTLED" ELSE "OPEN",
                                    IF settle_immediately THEN posted_at ELSE NoTime) >>,
              subledger |-> << recognized >>,
              journals |-> IF ~settle_immediately THEN << >>
                  ELSE << JournalRow(order_id, PAYROLL_AP_ACCOUNT, amount, 0,
                                     PayrollMemo(period, order_id, "AP_SETTLE_DEBIT")),
                          JournalRow(order_id, CASH_ACCOUNT, 0, amount,
                                     PayrollMemo(period, order_id, "AP_SETTLE_CREDIT")) >>]
\* create_and_settle_payroll_ap_obligation for one (order, currency) total: the
\* obligation, its subledger entries and the settlement journal pair.
\* payment_uuid_first: the payment entry's uuid sorts before the recognition's.
CreateAndSettlePayrollApObligation(id, period, order_id, amount, currency, posted_at, settle_immediately, payment_uuid_first) ==
    LET recognized == SubledgerRow(IF payment_uuid_first THEN 4 * id + 2 ELSE 4 * id + 1,
                                   id, order_id, "OBLIGATION_RECOGNIZED", 0, amount, amount,
                                   posted_at)
        payment == SubledgerRow(IF payment_uuid_first THEN 4 * id + 1 ELSE 4 * id + 2,
                                id, order_id, "PAYMENT_POSTED", amount, 0, 0, posted_at)
    IN  IF amount <= 0
        THEN [obligations |-> << >>, subledger |-> << >>, journals |-> << >>]
        ELSE IF ~settle_immediately
        THEN [obligations |-> << ObligationRow(id, order_id, period, amount, currency,
                                               "OPEN", NoTime) >>,
              subledger |-> << recognized >>,
              journals |-> << >>]
        ELSE [obligations |-> << ObligationRow(id, order_id, period, amount, currency,
                                               "SETTLED", posted_at) >>,
              subledger |-> << recognized, payment >>,
              journals |-> << JournalRow(order_id, PAYROLL_AP_ACCOUNT, amount, 0,
                                         PayrollMemo(period, order_id, "AP_SETTLE_DEBIT")),
                              JournalRow(order_id, CASH_ACCOUNT, 0, amount,
                                         PayrollMemo(period, order_id, "AP_SETTLE_CREDIT")) >>]

\* the response of a gateway handler
Response(op, ok, detail) == [op |-> op, ok |-> ok, detail |-> detail]
NoDetail ==
    [ap_obligation_id |-> 0, previous_status |-> "-", settled_amount |-> 0,
     outstanding_before |-> 0, outstanding_after |-> 0, already_settled |-> FALSE,
     status |-> "-",
     period |-> NoPeriod, source_total |-> 0, allocated_total |-> 0, journal_total |-> 0]

\* (faulty variant: a variance of exactly the threshold is out of tolerance)
ReconciliationRowStrict(source_total, allocated_total, journal_total, orders_allocated) ==
    LET variance_amount == IF source_total >= journal_total
                           THEN source_total - journal_total
                           ELSE journal_total - source_total
        variance_pct == IF source_total > 0
                        THEN RoundHalfEven(variance_amount * 100 * 10000, source_total)
                        ELSE 0
    IN  [present |-> TRUE, source_total |-> source_total,
         allocated_total |-> allocated_total, journal_total |-> journal_total,
         variance_amount |-> variance_amount, variance_pct |-> variance_pct,
         orders_allocated |-> orders_allocated,
         status |-> IF source_total = 0 THEN "NO_SOURCE_COSTS"
                    ELSE IF variance_pct < FINOPS_VARIANCE_THRESHOLD_PCT THEN "BALANCED"
                    ELSE "OUT_OF_TOLERANCE"]
\* the finops_period_reconciliation row allocate_costs upserts; variance_pct is
\* in 0.0001 percent, rounded half-even to four decimals
ReconciliationRow(source_total, allocated_total, journal_total, orders_allocated) ==
    LET variance_amount == IF source_total >= journal_total
                           THEN source_total - journal_total
                           ELSE journal_total - source_total
        variance_pct == IF source_total > 0
                        THEN RoundHalfEven(variance_amount * 100 * 10000, source_total)
                        ELSE 0
    IN  [present |-> TRUE, source_total |-> source_total,
         allocated_total |-> allocated_total, journal_total |-> journal_total,
         variance_amount |-> variance_amount, variance_pct |-> variance_pct,
         orders_allocated |-> orders_allocated,
         status |-> IF source_total = 0 THEN "NO_SOURCE_COSTS"
                    ELSE IF variance_pct <= FINOPS_VARIANCE_THRESHOLD_PCT THEN "BALANCED"
                    ELSE "OUT_OF_TOLERANCE"]
NoReconciliation ==
    [present |-> FALSE, source_total |-> 0, allocated_total |-> 0, journal_total |-> 0,
     variance_amount |-> 0, variance_pct |-> 0, orders_allocated |-> 0, status |-> "-"]

\* allocate_costs' GROUP BY order_id, currency query over the period's rows
PerOrderRows(rows) ==
    LET groups == {<<rows[i].order_id, rows[i].currency>> : i \in 1..Len(rows)}
        sorted == SortedSeq(groups, [g \in groups |-> g[1] * 10 + CurrencyRank(g[2])])
    IN  [k \in 1..Len(sorted) |->
            [order_id |-> sorted[k][1], currency |-> sorted[k][2],
             total_cost |-> SumSeq(SelectSeq(rows, LAMBDA a :
                                a.order_id = sorted[k][1] /\ a.currency = sorted[k][2]),
                                "allocated_cost")]]

\* allocate_costs' DELETE FROM journals WHERE order_id = ANY(order_ids) AND memo
\* LIKE 'PAYROLL_ALLOC|<period key>|%': the lines that stay
KeptJournals(order_ids, period) ==
    SelectSeq(journals, LAMBDA j : ~(/\ j.order_id \in order_ids
                                     /\ j.memo.ns = "PAYROLL_ALLOC"
                                     /\ j.memo.period = period))

\* (faulty variant: the earlier rows of the period are not deleted)
KeptAllocationsAll(period) == allocations
\* allocate_costs' DELETE FROM finops_cost_allocations of the period: the rows
\* that stay
KeptAllocations(period) == SelectSeq(allocations, LAMBDA a : a.period # period)

\* clear_period_payroll_ap_obligations: the obligations that stay
ClearPeriodPayrollApObligations(order_ids, period) ==
    SelectSeq(obligations, LAMBDA b : ~(/\ b.order_id \in order_ids
                                        /\ b.source_type = "AUTONOMY_PAYROLL"
                                        /\ b.counterparty = period))

\* (faulty variant: the period's rows are deleted before the request is refused)
AllocateCostsRefusedAfterDelete(period) ==
    /\ response' = Response("allocate_costs", FALSE, NoDetail)
    /\ allocations' = KeptAllocations(period)
    /\ UNCHANGED <<journals, obligations, subledger, reconciliations, seqno>>
\* allocate_costs returns Err before its first DELETE: the actor is refused, the
\* period is empty or reversed, or no fulfilled order lies in it (the
\* transaction, if begun, is dropped)
AllocateCostsRefused(period) ==
    /\ response' = Response("allocate_costs", FALSE, NoDetail)
    /\ UNCHANGED <<journals, allocations, obligations, subledger, reconciliations, seqno>>

\* allocate_costs, one transaction.  Each intermediate result of the handler is
\* bound once, in the order the handler computes it.  flip: how the random uuids
\* of an obligation's two subledger entries compare (they share posted_at); it
\* matters only when the payment entry is written.
AllocateCosts(period, requested_by_agent_id, settle_payroll_ap) ==
    /\ seqno < horizon
    /\ \E eligible \in {ListFulfilledOrders(period)} :
       IF \/ requested_by_agent_id \notin FINOPS_ACTOR_IDS
          \/ period[2] <= period[1]
          \/ eligible = << >>
       THEN AllocateCostsRefused(period)
       ELSE
       \E order_ids \in {{eligible[i].order_id : i \in 1..Len(eligible)}} :
       \E kept_journals \in {KeptJournals(order_ids, period)} :
       \E kept_allocations \in {KeptAllocations(period)} :
       \E kept_obligations \in {ClearPeriodPayrollApObligations(order_ids, period)} :
       \E kept_subledger \in {SubledgerAfterObligationDelete(subledger,
                                {kept_obligations[i].id : i \in 1..Len(kept_obligations)})} :
       \E inputs \in {AllocationInputs(period)} :
       \E written \in {Flatten([i \in 1..Len(inputs) |->
                                  AllocateInputCost(eligible, period, inputs[i])])} :
       \E per_order_rows \in {SelectSeq(
                                 PerOrderRows(SelectSeq(kept_allocations \o written,
                                                        LAMBDA a : a.period = period)),
                                 LAMBDA g : g.total_cost > 0)} :
       \E flip \in IF settle_payroll_ap THEN BOOLEAN ELSE {FALSE} :
       \E first \in {[k \in 1..Len(per_order_rows) |-> flip]} :
       \E posted \in {[k \in 1..Len(per_order_rows) |->
                         CreateAndSettlePayrollApObligation(
                             seqno + k, period, per_order_rows[k].order_id,
                             per_order_rows[k].total_cost, per_order_rows[k].currency,
                             seqno, settle_payroll_ap, first[k])]} :
       \E rec \in {ReconciliationRow(SumSeq(inputs, "amount"),
                                     SumSeq(written, "allocated_cost"),
                                     SumSeq(per_order_rows, "total_cost"),
                                     Len(eligible))} :
           /\ journals' = kept_journals \o
                  Flatten([k \in 1..Len(per_order_rows) |->
                      PayrollPair(period, per_order_rows[k].order_id,
                                  per_order_rows[k].total_cost) \o posted[k].journals])
           /\ allocations' = kept_allocations \o written
           /\ obligations' = kept_obligations \o
                  Flatten([k \in 1..Len(per_order_rows) |-> posted[k].obligations])
           /\ subledger' = kept_subledger \o
                  Flatten([k \in 1..Len(per_order_rows) |-> posted[k].subledger])
           /\ reconciliations' = [reconciliations EXCEPT ![period] = rec]
           /\ seqno' = seqno + Len(per_order_rows) + 1
           /\ response' = Response("allocate_costs", TRUE,
                              [NoDetail EXCEPT !.status = rec.status,
                                               !.period = period,
                                               !.source_total = rec.source_total,
                                               !.allocated_total = rec.allocated_total,
                                               !.journal_total = rec.journal_total])
    /\ UNCHANGED <<orders, cfgVars, positions, movements, settlements, invocations,
                   escalations, costs, unit, deliveries, published, now, ipVars>>

\* ------------------------------------------- concurrent allocate_costs runs
\* Two allocate_costs requests served at the same time, each in its own
\* transaction (read committed): a statement sees what is committed when it
\* runs plus the transaction's own writes, and the writes show at commit.
\* snap_*: the table lengths the DELETE statements saw; saw: the runs that had
\* committed by then; written and add_*: the rows inserted and not yet committed.
RunIds == {1, 2}

IdleRun ==
    [pc |-> "idle", ok |-> FALSE, period |-> NoPeriod, settle |-> FALSE, eligible |-> << >>,
     saw |-> {}, snap_journals |-> 0, snap_allocations |-> 0, snap_obligations |-> 0,
     written |-> << >>, add_journals |-> << >>, add_obligations |-> << >>,
     add_subledger |-> << >>, rec |-> NoReconciliation]

RunOrderIds(r) == {allocRuns[r].eligible[i].order_id : i \in 1..Len(allocRuns[r].eligible)}

\* the rows of a table without those at the positions in gone
WithoutRows(rows, gone) ==
    Flatten([i \in 1..Len(rows) |-> IF i \in gone THEN << >> ELSE << rows[i] >>])

\* the committed rows run r's DELETE statements removed
DeletedJournals(r) ==
    {i \in 1..allocRuns[r].snap_journals :
        /\ journals[i].order_id \in RunOrderIds(r)
        /\ journals[i].memo.ns = "PAYROLL_ALLOC"
        /\ journals[i].memo.period = allocRuns[r].period}

\* (faulty variant: the DELETE also removes what was committed after it ran)
DeletedAllocationsLate(r) ==
    {i \in 1..Len(allocations) : allocations[i].period = allocRuns[r].period}
DeletedAllocations(r) ==
    {i \in 1..allocRuns[r].snap_allocations : allocations[i].period = allocRuns[r].period}

DeletedObligations(r) ==
    {i \in 1..allocRuns[r].snap_obligations :
        /\ obligations[i].order_id \in RunOrderIds(r)
        /\ obligations[i].source_type = "AUTONOMY_PAYROLL"
        /\ obligations[i].counterparty = allocRuns[r].period}

\* allocate_costs up to its DELETE statements
RunDelete(r, period, requested_by_agent_id, settle_payroll_ap) ==
    /\ allocRuns[r].pc = "idle"
    /\ \E eligible \in {ListFulfilledOrders(period)} :
       IF \/ requested_by_agent_id \notin FINOPS_ACTOR_IDS
          \/ period[2] <= period[1]
          \/ eligible = << >>
       THEN /\ response' = Response("allocate_costs", FALSE, NoDetail)
            /\ allocRuns' = [allocRuns EXCEPT ![r] = [IdleRun EXCEPT !.pc = "done"]]
       ELSE /\ allocRuns' = [allocRuns EXCEPT ![r] =
                   [IdleRun EXCEPT !.pc = "deleted", !.period = period,
                                   !.settle = settle_payroll_ap, !.eligible = eligible,
                                   !.saw = {v \in RunIds : allocRuns[v].pc = "done" /\ allocRuns[v].ok},
                                   !.snap_journals = Len(journals),
                                   !.snap_allocations = Len(allocations),
                                   !.snap_obligations = Len(obligations)]]
            /\ UNCHANGED response
    /\ UNCHANGED <<orders, routing, registry, seeded, horizon, workers, settleCalls, govVars, opsTables,
                   costs, allocations, obligations, subledger, reconciliations, seqno, unit,
                   deliveries, published, now, ipVars>>

\* allocate_costs from its input queries to the reconciliation it computes: the
\* allocation rows, the per-order query over the period's rows, the journal
\* pairs and the obligations, all still uncommitted
RunPost(r) ==
    /\ allocRuns[r].pc = "deleted"
    /\ seqno < horizon
    /\ LET period == allocRuns[r].period
           eligible == allocRuns[r].eligible
       IN
       \E inputs \in {AllocationInputs(period)} :
       \E written \in {Flatten([i \in 1..Len(inputs) |->
                                  AllocateInputCost(eligible, period, inputs[i])])} :
       \E per_order_rows \in {SelectSeq(
                                 PerOrderRows(SelectSeq(
                                     WithoutRows(allocations, DeletedAllocations(r)) \o written,
                                     LAMBDA a : a.period = period)),
                                 LAMBDA g : g.total_cost > 0)} :
       \E flip \in IF allocRuns[r].settle THEN BOOLEAN ELSE {FALSE} :
       \E posted \in {[k \in 1..Len(per_order_rows) |->
                         CreateAndSettlePayrollApObligation(
                             seqno + k, period, per_order_rows[k].order_id,
                             per_order_rows[k].total_cost, per_order_rows[k].currency,
                             seqno, allocRuns[r].settle, flip)]} :
           /\ allocRuns' = [allocRuns EXCEPT
                  ![r].pc = "posted",
                  ![r].written = written,
                  ![r].add_journals = Flatten([k \in 1..Len(per_order_rows) |->
                      PayrollPair(period, per_order_rows[k].order_id,
                                  per_order_rows[k].total_cost) \o posted[k].journals]),
                  ![r].add_obligations =
                      Flatten([k \in 1..Len(per_order_rows) |-> posted[k].obligations]),
                  ![r].add_subledger =
                      Flatten([k \in 1..Len(per_order_rows) |-> posted[k].subledger]),
                  ![r].rec = ReconciliationRow(SumSeq(inputs, "amount"),
                                               SumSeq(written, "allocated_cost"),
                                               SumSeq(per_order_rows, "total_cost"),
                                               Len(eligible))]
           /\ seqno' = seqno + Len(per_order_rows) + 1
    /\ UNCHANGED <<orders, routing, registry, seeded, horizon, workers, settleCalls, govVars, opsTables,
                   costs, allocations, obligations, subledger, reconciliations, response,
                   unit, deliveries, published, now, ipVars>>

\* the reconciliation upsert (it waits for an uncommitted upsert of the same
\* period, so the commits come one after the other) and the commit
RunCommit(r) ==
    /\ allocRuns[r].pc = "posted"
    /\ LET kept_obligations == WithoutRows(obligations, DeletedObligations(r)) IN
       /\ journals' = WithoutRows(journals, DeletedJournals(r)) \o allocRuns[r].add_journals
       /\ allocations' = WithoutRows(allocations, DeletedAllocations(r)) \o allocRuns[r].written
       /\ obligations' = kept_obligations \o allocRuns[r].add_obligations
       /\ subledger' = SubledgerAfterObligationDelete(subledger,
                           {kept_obligations[i].id : i \in 1..Len(kept_obligations)})
                       \o allocRuns[r].add_subledger
    /\ reconciliations' = [reconciliations EXCEPT ![allocRuns[r].period] = allocRuns[r].rec]
    /\ response' = Response("allocate_costs", TRUE,
                        [NoDetail EXCEPT !.status = allocRuns[r].rec.status,
                                         !.period = allocRuns[r].period,
                                         !.source_total = allocRuns[r].rec.source_total,
                                         !.allocated_total = allocRuns[r].rec.allocated_total,
                                         !.journal_total = allocRuns[r].rec.journal_total])
    /\ allocRuns' = [allocRuns EXCEPT ![r].pc = "done", ![r].ok = TRUE]
    /\ UNCHANGED <<orders, routing, registry, seeded, horizon, workers, settleCalls, govVars, positions,
                   movements, settlements, invocations, escalations, costs, seqno, unit,
                   deliveries, published, now, ipVars>>

\* ------------------------------------------------------------ AP settlement
AP_SETTLE_EPSILON == 1

ApLiabilityAccountForSourceType(source_type) ==
    CASE source_type = "PROCUREMENT" -> "2100"
      [] source_type = "SERVICE_DELIVERY" -> "2200"
      [] source_type = "AUTONOMY_PAYROLL" -> PAYROLL_AP_ACCOUNT
      [] OTHER -> "-"

\* settle_ap_internal, one transaction; expected_source_type "ANY" stands for None
SettleApInternal(ap_obligation_id, requested_by_agent_id, expected_source_type, memo_namespace) ==
    /\ seqno < horizon
    /\ LET found == {i \in 1..Len(obligations) : obligations[i].id = ap_obligation_id}
           Refuse == /\ response' = Response(memo_namespace, FALSE, NoDetail)
                     /\ UNCHANGED <<journals, obligations, subledger, seqno>>
       IN
       IF requested_by_agent_id \notin FINOPS_ACTOR_IDS \/ found = {} THEN Refuse
       ELSE
       LET i == CHOOSE k \in found : TRUE
           row == obligations[i]
           liability_account == ApLiabilityAccountForSourceType(row.source_type)
           outstanding_before == CurrentApObligationBalance(subledger, ap_obligation_id)
       IN  IF \/ expected_source_type # "ANY" /\ row.source_type # expected_source_type
              \/ liability_account = "-"
              \/ row.status = "CANCELLED"
           THEN Refuse
           ELSE IF row.status = "SETTLED" /\ outstanding_before <= AP_SETTLE_EPSILON
           THEN /\ response' = Response(memo_namespace, TRUE,
                        [NoDetail EXCEPT !.ap_obligation_id = ap_obligation_id,
                                         !.previous_status = row.status,
                                         !.outstanding_before = outstanding_before,
                                         !.outstanding_after = outstanding_before,
                                         !.already_settled = TRUE,
                                         !.status = "SETTLED"])
                /\ UNCHANGED <<journals, obligations, subledger, seqno>>
           ELSE LET settled_amount == outstanding_before
                    pays == settled_amount > AP_SETTLE_EPSILON
                    entries == IF pays
                               THEN Append(subledger,
                                      SubledgerRow(4 * seqno + 3, ap_obligation_id,
                                                   row.order_id, "PAYMENT_POSTED",
                                                   settled_amount, 0, 0, seqno))
                               ELSE subledger
                IN  /\ subledger' = entries
                    /\ journals' = IF pays
                          THEN journals \o
                               << JournalRow(row.order_id, liability_account, settled_amount, 0,
                                      Memo(memo_namespace, NoPeriod, ap_obligation_id,
                                           "AP_SETTLE_DEBIT")),
                                  JournalRow(row.order_id, CASH_ACCOUNT, 0, settled_amount,
                                      Memo(memo_namespace, NoPeriod, ap_obligation_id,
                                           "AP_SETTLE_CREDIT")) >>
                          ELSE journals
                    /\ obligations' = [obligations EXCEPT
                          ![i].status = "SETTLED",
                          ![i].settled_at = IF @ = NoTime THEN seqno ELSE @]
                    /\ seqno' = seqno + 1
                    /\ response' = Response(memo_namespace, TRUE,
                          [NoDetail EXCEPT
                              !.ap_obligation_id = ap_obligation_id,
                              !.previous_status = row.status,
                              !.settled_amount = settled_amount,
                              !.outstanding_before = outstanding_before,
                              !.outstanding_after =
                                  CurrentApObligationBalance(entries, ap_obligation_id),
                              !.status = "SETTLED"])
    /\ UNCHANGED <<orders, cfgVars, positions, movements, settlements, invocations,
                   escalations, costs, allocations, reconciliations, unit, deliveries,
                   published, now, ipVars>>

SettlePayrollAp(ap_obligation_id, requested_by_agent_id) ==
    SettleApInternal(ap_obligation_id, requested_by_agent_id, "AUTONOMY_PAYROLL",
                     "PAYROLL_AP_RETRY")

SettleAp(ap_obligation_id, requested_by_agent_id) ==
    SettleApInternal(ap_obligation_id, requested_by_agent_id, "ANY", "AP_SETTLEMENT")

\* ------------------------------------------- concurrent settle_ap requests
\* each request is one read-committed transaction: it takes its timestamp,
\* locks the obligation row, reads the balance, buffers its writes, commits
SettleCallIds == {1, 2}

IdleSettle ==
    [pc |-> "idle", ap_obligation_id |-> 0, expected_source_type |-> "ANY",
     memo_namespace |-> "-", now |-> 0, row |-> 0, overlaps |-> {},
     add_subledger |-> << >>, add_journals |-> << >>,
     response |-> Response("-", TRUE, NoDetail)]

settleRest == <<orders, routing, registry, seeded, horizon, workers, allocRuns, govVars,
                positions, movements, settlements, invocations, escalations, costs,
                allocations, reconciliations, unit, deliveries, published, now, ipVars>>

\* the requests whose transaction is open
SettlesInFlight == {t \in SettleCallIds : settleCalls[t].pc \in {"select", "locked", "posted"}}

\* the requests holding the row lock of an obligation
LockHolders(ap_obligation_id) ==
    {t \in SettleCallIds : /\ settleCalls[t].pc \in {"locked", "posted"}
                           /\ settleCalls[t].ap_obligation_id = ap_obligation_id}

\* the request returns an error; its transaction, if open, is rolled back
SettleRefused(s) ==
    /\ settleCalls' = [settleCalls EXCEPT
          ![s].pc = "done",
          ![s].response = Response(settleCalls[s].memo_namespace, FALSE, NoDetail)]
    /\ response' = Response(settleCalls[s].memo_namespace, FALSE, NoDetail)

\* settle_ap_internal up to pool.begin(): the actor check and the timestamp
SettleBegin(s, ap_obligation_id, requested_by_agent_id, expected_source_type, memo_namespace) ==
    /\ settleCalls[s].pc = "idle"
    /\ seqno < horizon
    /\ IF requested_by_agent_id \notin FINOPS_ACTOR_IDS
       THEN /\ settleCalls' = [settleCalls EXCEPT
                  ![s].pc = "done",
                  ![s].ap_obligation_id = ap_obligation_id,
                  ![s].memo_namespace = memo_namespace,
                  ![s].response = Response(memo_namespace, FALSE, NoDetail)]
            /\ response' = Response(memo_namespace, FALSE, NoDetail)
            /\ UNCHANGED seqno
       ELSE /\ settleCalls' = [settleCalls EXCEPT
                  ![s].pc = "select",
                  ![s].ap_obligation_id = ap_obligation_id,
                  ![s].expected_source_type = expected_source_type,
                  ![s].memo_namespace = memo_namespace,
                  ![s].now = seqno,
                  ![s].overlaps = SettlesInFlight]
            /\ seqno' = seqno + 1
            /\ UNCHANGED response
    /\ UNCHANGED <<journals, obligations, subledger, settleRest>>

\* SELECT ... FOR UPDATE of the obligation row: it waits while another
\* transaction holds the row lock, then reads the committed row
SettleSelectForUpdate(s) ==
    /\ settleCalls[s].pc = "select"
    /\ LockHolders(settleCalls[s].ap_obligation_id) = {}
    /\ LET found == {i \in 1..Len(obligations) :
                        obligations[i].id = settleCalls[s].ap_obligation_id}
       IN  IF found = {} THEN SettleRefused(s)
           ELSE LET i == CHOOSE k \in found : TRUE
                    row == obligations[i]
                IN  IF \/ /\ settleCalls[s].expected_source_type # "ANY"
                          /\ row.source_type # settleCalls[s].expected_source_type
                       \/ ApLiabilityAccountForSourceType(row.source_type) = "-"
                       \/ row.status = "CANCELLED"
                    THEN SettleRefused(s)
                    ELSE /\ settleCalls' = [settleCalls EXCEPT ![s].pc = "locked",
                                                               ![s].row = i]
                         /\ UNCHANGED response
    /\ UNCHANGED <<journals, obligations, subledger, seqno, settleRest>>

\* under the row lock: the balance is read and the payment, if any, written
SettlePost(s) ==
    /\ settleCalls[s].pc = "locked"
    /\ LET call == settleCalls[s]
           row == obligations[call.row]
           liability_account == ApLiabilityAccountForSourceType(row.source_type)
           outstanding_before == CurrentApObligationBalance(subledger, call.ap_obligation_id)
       IN  IF row.status = "SETTLED" /\ outstanding_before <= AP_SETTLE_EPSILON
           THEN settleCalls' = [settleCalls EXCEPT
                    ![s].pc = "posted",
                    ![s].response = Response(call.memo_namespace, TRUE,
                        [NoDetail EXCEPT !.ap_obligation_id = call.ap_obligation_id,
                                         !.previous_status = row.status,
                                         !.outstanding_before = outstanding_before,
                                         !.outstanding_after = outstanding_before,
                                         !.already_settled = TRUE,
                                         !.status = "SETTLED"])]
           ELSE LET settled_amount == outstanding_before
                    pays == settled_amount > AP_SETTLE_EPSILON
                    entries == IF pays
                               THEN << SubledgerRow(4 * call.now + 3, call.ap_obligation_id,
                                                    row.order_id, "PAYMENT_POSTED",
                                                    settled_amount, 0, 0, call.now) >>
                               ELSE << >>
                IN  settleCalls' = [settleCalls EXCEPT
                        ![s].pc = "posted",
                        ![s].add_subledger = entries,
                        ![s].add_journals = IF pays
                            THEN << JournalRow(row.order_id, liability_account,
                                        settled_amount, 0,
                                        Memo(call.memo_namespace, NoPeriod,
                                             call.ap_obligation_id, "AP_SETTLE_DEBIT")),
                                    JournalRow(row.order_id, CASH_ACCOUNT, 0, settled_amount,
                                        Memo(call.memo_namespace, NoPeriod,
                                             call.ap_obligation_id, "AP_SETTLE_CREDIT")) >>
                            ELSE << >>,
                        ![s].response = Response(call.memo_namespace, TRUE,
                            [NoDetail EXCEPT
                                !.ap_obligation_id = call.ap_obligation_id,
                                !.previous_status = row.status,
                                !.settled_amount = settled_amount,
                                !.outstanding_before = outstanding_before,
                                !.outstanding_after =
                                    CurrentApObligationBalance(subledger \o entries,
                                                               call.ap_obligation_id),
                                !.status = "SETTLED"])]
    /\ UNCHANGED <<journals, obligations, subledger, seqno, response, settleRest>>

\* tx.commit(): the writes become visible and the row lock is released
SettleCommit(s) ==
    /\ settleCalls[s].pc = "posted"
    /\ LET call == settleCalls[s] IN
       /\ subledger' = subledger \o call.add_subledger
       /\ journals' = journals \o call.add_journals
       /\ obligations' = IF call.response.detail.already_settled THEN obligations
                         ELSE [obligations EXCEPT
                                 ![call.row].status = "SETTLED",
                                 ![call.row].settled_at = IF @ = NoTime THEN call.now ELSE @]
       /\ response' = call.response
    /\ settleCalls' = [settleCalls EXCEPT ![s].pc = "done"]
    /\ UNCHANGED <<seqno, settleRest>>

\* ------------------------------------- the InventoryPosition type (library)
\* average_cost is the exact quotient num/den in lowest terms
RECURSIVE Gcd(_, _)
Gcd(a, b) == IF b = 0 THEN a ELSE Gcd(b, a % b)

Abs(n) == IF n < 0 THEN 0 - n ELSE n

Quotient(num, den) ==
    LET sign == IF den < 0 THEN 0 - 1 ELSE 1
        g == Gcd(Abs(num), Abs(den))
    IN  IF num = 0 THEN [num |-> 0, den |-> 1]
        ELSE [num |-> sign * (num \div g), den |-> sign * (den \div g)]

InventoryPosition(quantity_on_hand, average_cost) ==
    [quantity_on_hand |-> quantity_on_hand, average_cost |-> average_cost]

\* InventoryPosition::receive
Receive(self, quantity, unit_cost) ==
    LET new_qty == self.quantity_on_hand + quantity
        \* current_value + incoming_value, over the denominator of average_cost
        value_num == self.quantity_on_hand * self.average_cost.num
                     + quantity * unit_cost * self.average_cost.den
    IN  IF new_qty = 0 THEN InventoryPosition(0, Quotient(0, 1))
        ELSE InventoryPosition(new_qty,
                               Quotient(value_num, self.average_cost.den * new_qty))

\* InventoryPosition::issue: the position it leaves
Issue(self, quantity) == [self EXCEPT !.quantity_on_hand = @ - quantity]

IpCalls(calls, last) == [calls |-> calls, last |-> last]

CallReceive(quantity, unit_cost) ==
    /\ ipOps.calls < MaxOps
    /\ ip' = Receive(ip, quantity, unit_cost)
    /\ ipOps' = IpCalls(ipOps.calls + 1, "receive")
    /\ UNCHANGED <<orders, cfgVars, opsTables, finTables, unit, deliveries, published, now>>

CallIssue(quantity) ==
    /\ ipOps.calls < MaxOps
    /\ ip' = Issue(ip, quantity)
    /\ ipOps' = IpCalls(ipOps.calls + 1, "issue")
    /\ UNCHANGED <<orders, cfgVars, opsTables, finTables, unit, deliveries, published, now>>

\* ------------------------------------------------------------ initial states
OrderRow(transaction_type, item_code, quantity, unit_price) ==
    [status |-> "NEW", transaction_type |-> transaction_type, item_code |-> item_code,
     quantity |-> quantity, unit_price |-> unit_price, fulfilled_at |-> NoTime]

\* escalation_action_type as upsert_skill_routing stores it (default
\* SKILL_EXECUTION); the SERVICE rows are configured with their own
EscalationActionOf(transaction_type) ==
    IF transaction_type = "PRODUCT" THEN "SKILL_EXECUTION" ELSE "SERVICE_REVIEW"

RoutingShapes == {"EXACT", "ANY", "NONE"}

\* skill_routing_policies holding, per intent, one row of the given scope
RoutingOf(shape, retries, hasFallback) ==
    [k \in Intents \X Scopes |->
        LET t == CHOOSE x \in TxnTypes : IntentOf(x) = k[1]
        IN  IF \/ shape = "EXACT" /\ k[2] = t
               \/ shape = "ANY" /\ k[2] = "ANY"
            THEN PolicyRow(t, retries, hasFallback, EscalationActionOf(t))
            ELSE NoPolicy]

\* inventory_positions seeded before the first order: SKU-1 absent or stocked
SeedRows == {NoRow, PositionRow(1, 4), PositionRow(3, 4)}
PositionsOf(seed) == [i \in Items |-> IF i = "SKU-1" THEN seed ELSE NoRow]

\* cost records ingested before the run (ingest_token_usage, ingest_cloud_cost,
\* ingest_subscription_cost): a token record of order 1, an unassigned cloud
\* record and a subscription spanning the whole horizon
CostsOf(currency, token_cost) ==
    { CostRow(1, "TOKEN", 1, "product-fulfillment", token_cost, currency, 0, NoTime, NoTime),
      CostRow(2, "CLOUD", NoOrder, NoSkill, 7, "USD", 0, NoTime, NoTime),
      CostRow(3, "SUBSCRIPTION", NoOrder, NoSkill, 9, "USD", NoTime, 0, MaxTime + 1) }

\* the periods callers ask for: the whole horizon, its last interval, an empty one
Periods == {<<0, MaxTime + 1>>, <<MaxTime, MaxTime + 1>>, <<MaxTime, MaxTime>>}
Requesters == {"payroll-agent", "ops-agent"}
\* the obligation ids a caller can name: those on file and one that is not
ObligationRefs == {0} \cup {obligations[i].id : i \in 1..Len(obligations)}

\* ------------------------------------------- concurrent fulfilment units
\* Several ops workers subscribed to orders.created, each running process_order
\* in its own transaction (read committed).  holds: the worker holds the row
\* lock of the item's position; inserted: it holds an uncommitted INSERT of it;
\* row: what its SELECT ... FOR UPDATE (or its INSERT) gave it.
WorkerIds == 1..NumWorkers

IdleWorker ==
    [pc |-> "idle", order_id |-> NoOrder, row |-> NoRow, holds |-> FALSE, inserted |-> FALSE,
     cogs |-> 0, tx_position |-> NoRow, tx_movements |-> << >>, cause |-> "-"]

WorkerOrder(w) == orders[workers[w].order_id]
WorkerItem(w) == WorkerOrder(w).item_code

\* another transaction holds the lock of the item's position row
LockedByOther(w, item) ==
    \E v \in WorkerIds \ {w} :
        /\ workers[v].pc # "idle"
        /\ WorkerItem(v) = item
        /\ workers[v].holds

\* inventory_positions has one row per item_code: an INSERT of a key waits for
\* an uncommitted INSERT of the same key and is refused once that key is committed
UncommittedInsertByOther(w, item) ==
    \E v \in WorkerIds \ {w} :
        /\ workers[v].pc # "idle"
        /\ WorkerItem(v) = item
        /\ workers[v].inserted

\* handle_message receives OrderCreated{o}; process_order locks the order row and
\* the chain succeeds (its rows are the unit's own)
WorkerBegin(w, o) ==
    /\ workers[w].pc = "idle"
    /\ orders[o].transaction_type = "PRODUCT"
    /\ deliveries[o] = 0
    /\ deliveries' = [deliveries EXCEPT ![o] = 1]
    /\ workers' = [workers EXCEPT ![w] = [IdleWorker EXCEPT !.pc = "select", !.order_id = o]]
    /\ UNCHANGED <<orders, routing, registry, seeded, horizon, allocRuns, settleCalls, govVars,
                   opsTables, finTables, unit, published, now, ipVars>>

\* ensure_inventory_for_order's SELECT ... FOR UPDATE: it waits for the holder of
\* the row lock and then reads the committed row; a key with no committed row
\* gives no row and no lock
WorkerSelectForUpdate(w) ==
    /\ workers[w].pc = "select"
    /\ LET item == WorkerItem(w) IN
       IF positions[item].present
       THEN /\ ~LockedByOther(w, item)
            /\ workers' = [workers EXCEPT ![w].pc = "update", ![w].row = positions[item],
                                          ![w].holds = TRUE]
       ELSE workers' = [workers EXCEPT ![w].pc = "insert", ![w].row = NoRow]
    /\ UNCHANGED <<orders, routing, registry, seeded, horizon, allocRuns, settleCalls, govVars,
                   opsTables, finTables, unit, deliveries, published, now, ipVars>>

\* ensure_inventory_for_order's INSERT of the (0, 0) row when the SELECT gave
\* none: refused as a duplicate key when the key has been committed meanwhile
\* (the statement fails, process_order returns Err and the transaction is dropped)
WorkerInsertPosition(w) ==
    /\ workers[w].pc = "insert"
    /\ LET item == WorkerItem(w) IN
       IF positions[item].present
       THEN workers' = [workers EXCEPT ![w] =
                [IdleWorker EXCEPT !.pc = "failed", !.order_id = workers[w].order_id,
                                   !.cause = "duplicate key"]]
       ELSE /\ ~UncommittedInsertByOther(w, item)
            /\ workers' = [workers EXCEPT ![w].pc = "update", ![w].row = NoRow,
                                          ![w].holds = TRUE, ![w].inserted = TRUE]
    /\ UNCHANGED <<orders, routing, registry, seeded, horizon, allocRuns, settleCalls, govVars,
                   opsTables, finTables, unit, deliveries, published, now, ipVars>>

\* the rest of ensure_inventory_for_order, the on_hand update and the ISSUE
\* movement, all inside the transaction
WorkerFulfilInventory(w) ==
    /\ workers[w].pc = "update"
    /\ LET order == WorkerOrder(w)
           got == EnsureInventoryForOrder(workers[w].row, order.item_code, order.quantity,
                                          order.unit_price, workers[w].order_id)
       IN  IF got.on_hand < order.quantity
           THEN workers' = [workers EXCEPT ![w] =
                    [IdleWorker EXCEPT !.pc = "failed", !.order_id = workers[w].order_id,
                                       !.cause = "inventory still insufficient"]]
           ELSE workers' = [workers EXCEPT
                    ![w].pc = "commit",
                    ![w].cogs = ProductCogs(order.quantity, got.avg_cost),
                    ![w].tx_position = PositionRow(got.on_hand - order.quantity, got.avg_cost),
                    ![w].tx_movements = got.receipts \o
                        << MovementRow(workers[w].order_id, order.item_code, "ISSUE",
                                       order.quantity, got.avg_cost) >>]
    /\ UNCHANGED <<orders, routing, registry, seeded, horizon, allocRuns, settleCalls, govVars,
                   opsTables, finTables, unit, deliveries, published, now, ipVars>>

\* the journal batch, the settlement row, the FULFILLED update and the commit,
\* which releases the locks
WorkerCommit(w) ==
    /\ workers[w].pc = "commit"
    /\ LET o == workers[w].order_id
           order == WorkerOrder(w)
       IN  /\ positions' = [positions EXCEPT ![order.item_code] = workers[w].tx_position]
           /\ movements' = movements \o workers[w].tx_movements
           /\ invocations' = Append(invocations,
                   InvocationRow(o, PrimarySkillOf(order.transaction_type), 1,
                                 SKILL_STATUS_SUCCESS, FALSE))
           /\ journals' = journals \o FulfilmentJournal(o, order.transaction_type,
                                                        Revenue(order), workers[w].cogs)
           /\ settlements' = Append(settlements, SettlementRow(o, Revenue(order)))
           /\ orders' = [orders EXCEPT ![o].status = "FULFILLED", ![o].fulfilled_at = now]
           /\ workers' = [workers EXCEPT ![w] =
                   [IdleWorker EXCEPT !.pc = "publish", !.order_id = o]]
    /\ UNCHANGED <<routing, registry, seeded, horizon, allocRuns, settleCalls, govVars, escalations,
                   finTables, unit, deliveries, published, now, ipVars>>

\* handle_message's Ok arm
WorkerPublish(w, published_ok) ==
    /\ workers[w].pc = "publish"
    /\ published' = IF published_ok
                    THEN Append(published, OrderFulfilledEvent(workers[w].order_id,
                                                               Revenue(WorkerOrder(w))))
                    ELSE published
    /\ workers' = [workers EXCEPT ![w] = IdleWorker]
    /\ UNCHANGED <<orders, routing, registry, seeded, horizon, allocRuns, settleCalls, govVars,
                   opsTables, finTables, unit, deliveries, now, ipVars>>

\* handle_message's Err arm: mark_order_failed
WorkerMarkOrderFailed(w) ==
    /\ workers[w].pc = "failed"
    /\ orders' = [orders EXCEPT ![workers[w].order_id].status = "FAILED"]
    /\ workers' = [workers EXCEPT ![w] = IdleWorker]
    /\ UNCHANGED <<routing, registry, seeded, horizon, allocRuns, settleCalls, govVars, opsTables,
                   finTables, unit, deliveries, published, now, ipVars>>

\* ------------------------------------------------------- governance gate
ACTION_ORDER_EXECUTION_PRODUCT == "ORDER_EXECUTION_PRODUCT"
ACTION_ORDER_EXECUTION_SERVICE == "ORDER_EXECUTION_SERVICE"
GateActionTypes == {ACTION_ORDER_EXECUTION_PRODUCT, ACTION_ORDER_EXECUTION_SERVICE}
\* the action types a freeze control can carry: the gate's and the escalation
\* action types of the routing policies
ActionTypes == GateActionTypes \cup {EscalationActionOf(t) : t \in TxnTypes}
GOVERNANCE_ACTOR_IDS == {"board-agent", "strategy-agent", "controller-agent"}
\* default_auto_approval_limit, in whole currency units (1,000,000.00)
DEFAULT_AUTO_APPROVAL_LIMIT == 1000000

ActionTypeForTransaction(transaction_type) ==
    IF transaction_type = "SERVICE" THEN ACTION_ORDER_EXECUTION_SERVICE
    ELSE ACTION_ORDER_EXECUTION_PRODUCT

NoThreshold == [active |-> FALSE, max_auto_amount |-> 0]
ThresholdRow(max_auto_amount) == [active |-> TRUE, max_auto_amount |-> max_auto_amount]

\* evaluate_policy_gate: is_frozen and requires_escalation (amount >
\* max_auto_amount of the active threshold row, else > the default limit)
EvaluatePolicyGate(action_type, amount) ==
    LET row == thresholds[action_type]
        over_default == \/ amount \div 10000 > DEFAULT_AUTO_APPROVAL_LIMIT
                        \/ /\ amount \div 10000 = DEFAULT_AUTO_APPROVAL_LIMIT
                           /\ amount % 10000 > 0
    IN  [is_frozen |-> freezes[action_type],
         requires_escalation |-> IF row.active THEN amount > row.max_auto_amount
                                 ELSE over_default]

\* an order id no orders row carries yet
NoOrderRow ==
    [status |-> "-", transaction_type |-> "PRODUCT", item_code |-> "SKU-1",
     quantity |-> 0, unit_price |-> 0, fulfilled_at |-> NoTime]

\* insert_escalation's row
GateEscalationRow(action_type, order_id, amount) ==
    [action_type |-> action_type, reference_type |-> "ORDER", reference_id |-> order_id,
     status |-> "PENDING", reason_code |-> "AMOUNT_THRESHOLD_EXCEEDED", amount |-> amount]

govRest == <<staticVars, positions, movements, journals, settlements, invocations, costs,
             allocations, obligations, subledger, reconciliations, seqno, unit, deliveries,
             published, now, ipVars>>

\* (faulty variant: the order is handed to dispatch whatever the gate says)
CreateOrderAlwaysDispatched(o, transaction_type, quantity, unit_price) ==
    /\ orders[o].status = "-"
    /\ \A k \in OrderIds : k < o => orders[k].status # "-"
    /\ LET action_type == ActionTypeForTransaction(transaction_type)
           amount == RoundHalfEven(quantity * unit_price, QtyScale)
           policy == EvaluatePolicyGate(action_type, amount)
       IN  IF policy.is_frozen
           THEN /\ response' = Response("create_order", FALSE, NoDetail)
                /\ UNCHANGED <<orders, escalations, dispatching>>
           ELSE /\ orders' = [orders EXCEPT ![o] =
                       [OrderRow(transaction_type, "SKU-1", quantity, unit_price)
                           EXCEPT !.status = IF policy.requires_escalation
                                             THEN "PENDING_APPROVAL" ELSE "NEW"]]
                /\ escalations' = IF policy.requires_escalation
                                  THEN Append(escalations,
                                              GateEscalationRow(action_type, o, amount))
                                  ELSE escalations
                /\ dispatching' = dispatching \cup {o}
                /\ response' = Response("create_order", TRUE, NoDetail)
    /\ UNCHANGED <<govRest, freezes, thresholds, created>>

\* create_order (and accept_quote, which runs the same gate) up to its commit:
\* o is the fresh order id
CreateOrder(o, transaction_type, quantity, unit_price) ==
    /\ orders[o].status = "-"
    /\ \A k \in OrderIds : k < o => orders[k].status # "-"
    /\ LET action_type == ActionTypeForTransaction(transaction_type)
           amount == RoundHalfEven(quantity * unit_price, QtyScale)
           policy == EvaluatePolicyGate(action_type, amount)
       IN  IF policy.is_frozen
           THEN /\ response' = Response("create_order", FALSE, NoDetail)
                /\ UNCHANGED <<orders, escalations, dispatching>>
           ELSE /\ orders' = [orders EXCEPT ![o] =
                       [OrderRow(transaction_type, "SKU-1", quantity, unit_price)
                           EXCEPT !.status = IF policy.requires_escalation
                                             THEN "PENDING_APPROVAL" ELSE "NEW"]]
                /\ escalations' = IF policy.requires_escalation
                                  THEN Append(escalations,
                                              GateEscalationRow(action_type, o, amount))
                                  ELSE escalations
                /\ dispatching' = IF policy.requires_escalation THEN dispatching
                                  ELSE dispatching \cup {o}
                /\ response' = Response("create_order", TRUE, NoDetail)
    /\ UNCHANGED <<govRest, freezes, thresholds, created>>

\* dispatch_order_event after the handler's commit: the event is published, or
\* the publish fails and the order is set FAILED
DispatchOrderEvent(o, published_ok) ==
    /\ o \in dispatching
    /\ dispatching' = dispatching \ {o}
    /\ IF published_ok
       THEN created' = Append(created, o) /\ UNCHANGED orders
       ELSE orders' = [orders EXCEPT ![o].status = "FAILED"] /\ UNCHANGED created
    /\ UNCHANGED <<govRest, escalations, freezes, thresholds, response>>

\* set_threshold
SetThreshold(action_type, max_auto_amount, updated_by_agent_id) ==
    /\ IF \/ updated_by_agent_id \notin GOVERNANCE_ACTOR_IDS
          \/ max_auto_amount <= 0
          \/ action_type \notin GateActionTypes
       THEN response' = Response("set_threshold", FALSE, NoDetail) /\ UNCHANGED thresholds
       ELSE /\ thresholds' = [thresholds EXCEPT ![action_type] = ThresholdRow(max_auto_amount)]
            /\ response' = Response("set_threshold", TRUE, NoDetail)
    /\ UNCHANGED <<govRest, orders, escalations, freezes, created, dispatching>>

\* set_freeze
SetFreeze(action_type, is_frozen, updated_by_agent_id) ==
    /\ IF updated_by_agent_id \notin GOVERNANCE_ACTOR_IDS \/ action_type \notin GateActionTypes
       THEN response' = Response("set_freeze", FALSE, NoDetail) /\ UNCHANGED freezes
       ELSE /\ freezes' = [freezes EXCEPT ![action_type] = is_frozen]
            /\ response' = Response("set_freeze", TRUE, NoDetail)
    /\ UNCHANGED <<govRest, orders, escalations, thresholds, created, dispatching>>

\* decide_escalation up to its commit; escalation_id is the row's position
DecideEscalation(escalation_id, decision, decided_by_agent_id) ==
    /\ escalation_id \in 1..(Len(escalations) + 1)
    /\ LET Refuse == /\ response' = Response("decide_escalation", FALSE, NoDetail)
                     /\ UNCHANGED <<orders, escalations, freezes, dispatching>>
       IN
       IF \/ decided_by_agent_id \notin GOVERNANCE_ACTOR_IDS
          \/ escalation_id \notin 1..Len(escalations)
       THEN Refuse
       ELSE LET row == escalations[escalation_id]
                o == row.reference_id
            IN  IF row.status # "PENDING" THEN Refuse
                ELSE IF row.reference_type # "ORDER"
                THEN /\ escalations' = [escalations EXCEPT ![escalation_id].status = decision]
                     /\ response' = Response("decide_escalation", TRUE, NoDetail)
                     /\ UNCHANGED <<orders, freezes, dispatching>>
                ELSE CASE decision = "APPROVED" ->
                            IF orders[o].status # "PENDING_APPROVAL" THEN Refuse
                            ELSE /\ escalations' =
                                       [escalations EXCEPT ![escalation_id].status = decision]
                                 /\ orders' = [orders EXCEPT ![o].status = "NEW"]
                                 /\ dispatching' = dispatching \cup {o}
                                 /\ response' = Response("decide_escalation", TRUE, NoDetail)
                                 /\ UNCHANGED freezes
                       [] decision = "REJECTED" ->
                            /\ escalations' =
                                  [escalations EXCEPT ![escalation_id].status = decision]
                            /\ orders' = [orders EXCEPT ![o].status = "FAILED"]
                            /\ response' = Response("decide_escalation", TRUE, NoDetail)
                            /\ UNCHANGED <<freezes, dispatching>>
                       [] decision = "FROZEN" ->
                            /\ escalations' =
                                  [escalations EXCEPT ![escalation_id].status = decision]
                            /\ orders' = [orders EXCEPT ![o].status = "FROZEN"]
                            /\ freezes' = [freezes EXCEPT ![row.action_type] = TRUE]
                            /\ response' = Response("decide_escalation", TRUE, NoDetail)
                            /\ UNCHANGED dispatching
                       [] OTHER -> Refuse
    /\ UNCHANGED <<govRest, thresholds, created>>

\* the gate's tables when every order on file was created NEW and dispatched
GovAfterDispatch ==
    /\ freezes = [a \in ActionTypes |-> FALSE]
    /\ thresholds = [a \in GateActionTypes |-> NoThreshold]
    /\ created = [k \in 1..NumOrders |-> k]
    /\ dispatching = {}

InitTables ==
    /\ workers = [w \in WorkerIds |-> IdleWorker]
    /\ allocRuns = [r \in RunIds |-> IdleRun]
    /\ settleCalls = [s \in SettleCallIds |-> IdleSettle]
    /\ movements = << >>
    /\ journals = << >>
    /\ settlements = << >>
    /\ invocations = << >>
    /\ escalations = << >>
    /\ allocations = << >>
    /\ obligations = << >>
    /\ subledger = << >>
    /\ reconciliations = [p \in Periods |-> NoReconciliation]
    /\ seqno = 1
    /\ response = Response("-", TRUE, NoDetail)
    /\ unit = IdleUnit
    /\ deliveries = [o \in OrderIds |-> 0]
    /\ published = << >>
    /\ now = 0
    /\ ip = InventoryPosition(0, Quotient(0, 1))
    /\ ipOps = IpCalls(0, "-")

InitRest == InitTables /\ GovAfterDispatch

\* the whole system: a PRODUCT order on SKU-1, the other orders SERVICE orders
\* whose item code carries a failure marker
Init ==
    /\ \E item \in {"SKU-FAILPRIMARY", "SKU-FAILALL"} :
          orders = [o \in OrderIds |->
                       IF o = 1 THEN OrderRow("PRODUCT", "SKU-1", MaxQty, 15)
                       ELSE OrderRow("SERVICE", item, 1, 5)]
    /\ routing = RoutingOf("ANY", 0, TRUE)
    /\ registry = RegistryOf("OK", "OK")
    /\ \E seed \in {NoRow, PositionRow(1, 4)} : positions = PositionsOf(seed)
    /\ seeded = positions
    /\ horizon = MaxSeq
    /\ costs = CostsOf("EUR", 10)
    /\ InitRest

\* the ops worker alone.  Order 1 is the order under study; the other orders
\* are PRODUCT orders on SKU-1.
OrdersOf(transaction_type, item_code, quantity, unit_price) ==
    [o \in OrderIds |->
        IF o = 1 THEN OrderRow(transaction_type, item_code, quantity, unit_price)
        ELSE OrderRow("PRODUCT", "SKU-1", 1, 15)]

\* every routing policy upsert_skill_routing accepts, over every item code
InitChain ==
    /\ \E t \in TxnTypes, item \in Items : orders = OrdersOf(t, item, 1, 5)
    /\ \E shape \in RoutingShapes, retries \in 0..MAX_RETRIES_LIMIT, hasFallback \in BOOLEAN :
          /\ shape = "NONE" => retries = 0 /\ hasFallback
          /\ routing = RoutingOf(shape, retries, hasFallback)
    /\ \E fallbackShape \in {"OK", "REVOKED"} : registry = RegistryOf("OK", fallbackShape)
    /\ positions = PositionsOf(NoRow)

\* every shape of skill_registry row
InitRegistry ==
    /\ \E t \in TxnTypes : orders = OrdersOf(t, "SKU-1", 1, 5)
    /\ \E retries \in {0, 1} : routing = RoutingOf("ANY", retries, TRUE)
    /\ \E primaryShape \in SkillShapes, fallbackShape \in SkillShapes :
          registry = RegistryOf(primaryShape, fallbackShape)
    /\ positions = PositionsOf(NoRow)

\* every quantity, price and seeded position of a PRODUCT order
InitStock ==
    /\ \E q \in Quantities, price \in Prices : orders = OrdersOf("PRODUCT", "SKU-1", q, price)
    /\ routing = RoutingOf("ANY", 0, TRUE)
    /\ registry = RegistryOf("OK", "OK")
    /\ \E seed \in SeedRows : positions = PositionsOf(seed)

\* the end-to-end order: PRODUCT, quantity 2 at unit_price 50.00, on an item with
\* nothing on hand (no position row, or a row left at 0)
InitEndToEnd ==
    /\ orders = OrdersOf("PRODUCT", "SKU-1", 2 * QtyScale, 50 * 10000)
    /\ routing = RoutingOf("ANY", 0, TRUE)
    /\ registry = RegistryOf("OK", "OK")
    /\ \E seed \in {NoRow, PositionRow(0, 0), PositionRow(0, 4)} :
          positions = PositionsOf(seed)

\* skill_routing_policies holding both an exact-scope and an ANY-scope row for
\* the PRODUCT intent (they differ in max_retries and in the fallback), and for
\* the SERVICE intent one row of the given scope or none
RoutingBoth(exactRetries, anyRetries, serviceShape) ==
    [k \in Intents \X Scopes |->
        IF k[1] = IntentOf("PRODUCT")
        THEN IF k[2] = "PRODUCT"
             THEN PolicyRow("PRODUCT", exactRetries, TRUE, EscalationActionOf("PRODUCT"))
             ELSE IF k[2] = "ANY"
             THEN PolicyRow("PRODUCT", anyRetries, FALSE, EscalationActionOf("PRODUCT"))
             ELSE NoPolicy
        ELSE RoutingOf(serviceShape, 0, TRUE)[k]]

\* order 1 a SERVICE order, the others PRODUCT orders, under a routing table
\* with both scopes for PRODUCT; the primary skill is approved or revoked
InitRouting ==
    /\ orders = OrdersOf("SERVICE", "SKU-1", 1, 5)
    /\ \E exactRetries \in {0, 1}, serviceShape \in RoutingShapes :
          routing = RoutingBoth(exactRetries, exactRetries + 2, serviceShape)
    /\ \E primaryShape \in {"OK", "REVOKED"}, fallbackShape \in {"OK", "REVOKED"} :
          registry = RegistryOf(primaryShape, fallbackShape)
    /\ positions = PositionsOf(NoRow)

InitOps ==
    /\ InitChain \/ InitRegistry \/ InitStock \/ InitEndToEnd \/ InitRouting
    /\ seeded = positions
    /\ horizon = MaxSeq
    /\ costs = {}
    /\ InitRest

\* the InventoryPosition type alone
InitInv ==
    /\ orders = [o \in OrderIds |-> OrderRow("PRODUCT", "SKU-1", 1, 15)]
    /\ routing = RoutingOf("NONE", 0, TRUE)
    /\ registry = RegistryOf("OK", "OK")
    /\ positions = PositionsOf(NoRow)
    /\ seeded = positions
    /\ horizon = MaxSeq
    /\ costs = {}
    /\ InitRest

\* the gateway's finops handlers alone, over orders the ops worker has already
\* dealt with: a fulfilled SERVICE order has its six journal lines, its settlement,
\* its invocation row and its OrderFulfilled event
FulfilledAt(row, t) == [row EXCEPT !.status = "FULFILLED", !.fulfilled_at = t]

\* order o is a SERVICE order of half a unit at the given price, fulfilled at
\* time at[o] or, when at[o] is NoTime, still NEW
FinOrders(price, at) ==
    [o \in OrderIds |->
        IF at[o] = NoTime THEN OrderRow("SERVICE", "SKU-1", 1, price[o])
        ELSE FulfilledAt(OrderRow("SERVICE", "SKU-1", 1, price[o]), at[o])]

FulfilledIds(os) == SortedSeq({o \in OrderIds : os[o].status = "FULFILLED"},
                              [o \in OrderIds |-> o])

InitFinLedger(os) ==
    LET done == FulfilledIds(os) IN
    /\ orders = os
    /\ journals = Flatten([k \in 1..Len(done) |->
            FulfilmentJournal(done[k], "SERVICE", Revenue(os[done[k]]),
                              ServiceCogs(os[done[k]].quantity, os[done[k]].unit_price))])
    /\ settlements = [k \in 1..Len(done) |-> SettlementRow(done[k], Revenue(os[done[k]]))]
    /\ invocations = [k \in 1..Len(done) |->
            InvocationRow(done[k], PrimarySkillOf("SERVICE"), 1, SKILL_STATUS_SUCCESS, FALSE)]
    /\ published = [k \in 1..Len(done) |->
            OrderFulfilledEvent(done[k], Revenue(os[done[k]]))]
    /\ deliveries = [o \in OrderIds |-> IF os[o].status = "FULFILLED" THEN 1 ELSE 0]
    /\ routing = RoutingOf("ANY", 0, TRUE)
    /\ registry = RegistryOf("OK", "OK")
    /\ positions = PositionsOf(NoRow)
    /\ seeded = positions
    /\ movements = << >>
    /\ escalations = << >>
    /\ allocations = << >>
    /\ obligations = << >>
    /\ subledger = << >>
    /\ reconciliations = [p \in Periods |-> NoReconciliation]
    /\ seqno = 1
    /\ horizon = MaxFinSeq
    /\ response = Response("-", TRUE, NoDetail)
    /\ unit = IdleUnit
    /\ now = MaxTime
    /\ ip = InventoryPosition(0, Quotient(0, 1))
    /\ ipOps = IpCalls(0, "-")
    /\ GovAfterDispatch
    /\ workers = [w \in WorkerIds |-> IdleWorker]
    /\ allocRuns = [r \in RunIds |-> IdleRun]
    /\ settleCalls = [s \in SettleCallIds |-> IdleSettle]

\* an unassigned cloud cost record of the given amount
CloudCost(id, order_id, amount) ==
    CostRow(id, "CLOUD", order_id, NoSkill, amount, "USD", 0, NoTime, NoTime)
TokenCost(id, order_id, skill_id, amount) ==
    CostRow(id, "TOKEN", order_id, skill_id, amount, "USD", 0, NoTime, NoTime)

\* the cost records ingested besides the shared cloud record: none, a token
\* record naming order 2, token records giving order 1 four skill weights, a
\* subscription spanning the whole horizon, or a token record of order 1 in EUR
OtherCosts ==
    { {},
      {TokenCost(2, 2, "service-delivery", 1)},
      {TokenCost(2, 1, "product-fulfillment", 3), TokenCost(3, 1, "product-fulfillment-safe", 3),
       TokenCost(4, 1, "service-delivery", 3), TokenCost(5, 1, "service-delivery-safe", 1)},
      {CostRow(6, "SUBSCRIPTION", NoOrder, NoSkill, 3, "USD", NoTime, 0, MaxTime + 1)},
      {CostRow(7, "TOKEN", 1, "service-delivery", 2, "EUR", 0, NoTime, NoTime)} }

\* shared costs over orders of revenue 3 (price 6 for half a unit) or 0 (price 1)
InitFinShare ==
    /\ \E shape \in {<<0, 0, 1>>, <<0, 0, 6>>, <<0, MaxTime, 6>>, <<NoTime, 0, 6>>,
                      <<NoTime, NoTime, 6>>} :
          InitFinLedger(FinOrders([o \in OrderIds |-> IF o = 3 THEN shape[3] ELSE 6],
                                  [o \in OrderIds |-> CASE o = 1 -> 0 [] o = 2 -> shape[1]
                                                         [] o = 3 -> shape[2]
                                                         [] OTHER -> NoTime]))
    /\ \E amount \in 0..MaxCost, others \in OtherCosts :
          costs = {CloudCost(1, NoOrder, amount)} \cup others

\* a cost record of 100.00 that names no order, three fulfilled orders of equal
\* revenue, no token usage
InitFinThirds ==
    /\ \E p \in {1, 6} :
          InitFinLedger(FinOrders([o \in OrderIds |-> p],
                                  [o \in OrderIds |-> IF o <= 3 THEN 0 ELSE NoTime]))
    /\ costs = {CloudCost(1, NoOrder, 100 * 10000)}

\* many small shared records over orders of revenue 3, 3 and 0, and one large
\* record naming order 1: the window's variance sits at the tolerance
InitFinTolerance ==
    /\ InitFinLedger(FinOrders([o \in OrderIds |-> IF o = 3 THEN 1 ELSE 6],
                               [o \in OrderIds |-> IF o <= 3 THEN 0 ELSE NoTime]))
    /\ \E n \in {50, 51} :
          costs = {CloudCost(i, NoOrder, 3) : i \in 1..n} \cup
                  {CloudCost(n + 1, 1, 10199 - 3 * n)}

InitFin == InitFinShare \/ InitFinThirds \/ InitFinTolerance

\* the windows of a subscription record against the period [0, 2): the same
\* second, three seconds ending with it, two seconds beginning with it, after
\* it, before it, half a second into it, a second and a half from its start,
\* and an empty window
SubscriptionWindows ==
    {<<0, 2>>, <<-4, 2>>, <<0, 4>>, <<2, 4>>, <<-4, 0>>, <<1, 3>>, <<0, 3>>, <<1, 1>>}

\* a token record and a cloud record at, before or after the period's start,
\* and one subscription record; order 1 is fulfilled at 0, order 2 at 1
InitInputs ==
    /\ InitFinLedger(FinOrders([o \in OrderIds |-> 6],
                               [o \in OrderIds |-> CASE o = 1 -> 0 [] o = 2 -> 1
                                                      [] OTHER -> NoTime]))
    /\ \E t \in {0, 1, 2}, w \in SubscriptionWindows, amount \in {1, 3, 20} :
          costs = {CostRow(1, "TOKEN", 1, "service-delivery", 2, "USD", t, NoTime, NoTime),
                   CostRow(2, "CLOUD", NoOrder, NoSkill, 5, "USD", 2 - t, NoTime, NoTime),
                   CostRow(3, "SUBSCRIPTION", NoOrder, NoSkill, amount, "USD", NoTime,
                           w[1], w[2])}

\* the gateway's governance handlers alone.  No order is on file, or order 1 was
\* dispatched, failed in execute_skill_plan and left its escalation PENDING.
GovThresholds == {0, 5}
GovDecisions == {"APPROVED", "REJECTED", "FROZEN", "PENDING"}
GovActors == {"board-agent", "ops-agent"}

InitGov ==
    /\ \E failed \in BOOLEAN :
          /\ orders = [o \in OrderIds |->
                          IF failed /\ o = 1
                          THEN [OrderRow("SERVICE", "SKU-FAILALL", QtyScale, 5)
                                   EXCEPT !.status = "FAILED"]
                          ELSE NoOrderRow]
          /\ escalations = IF failed
                THEN << EscalationRow(OrderRow("SERVICE", "SKU-FAILALL", QtyScale, 5), 1,
                                      PolicyRow("SERVICE", 0, FALSE,
                                                EscalationActionOf("SERVICE"))) >>
                ELSE << >>
          /\ created = IF failed THEN << 1 >> ELSE << >>
          /\ deliveries = [o \in OrderIds |-> IF failed /\ o = 1 THEN 1 ELSE 0]
    /\ routing = RoutingOf("ANY", 0, FALSE)
    /\ registry = RegistryOf("OK", "OK")
    /\ positions = PositionsOf(NoRow)
    /\ seeded = positions
    /\ horizon = MaxSeq
    /\ costs = {}
    /\ freezes = [a \in ActionTypes |-> FALSE]
    /\ thresholds = [a \in GateActionTypes |-> NoThreshold]
    /\ dispatching = {}
    /\ workers = [w \in WorkerIds |-> IdleWorker]
    /\ allocRuns = [r \in RunIds |-> IdleRun]
    /\ settleCalls = [s \in SettleCallIds |-> IdleSettle]
    /\ movements = << >>
    /\ journals = << >>
    /\ settlements = << >>
    /\ invocations = << >>
    /\ allocations = << >>
    /\ obligations = << >>
    /\ subledger = << >>
    /\ reconciliations = [p \in Periods |-> NoReconciliation]
    /\ seqno = 1
    /\ response = Response("-", TRUE, NoDetail)
    /\ unit = IdleUnit
    /\ published = << >>
    /\ now = 0
    /\ ip = InventoryPosition(0, Quotient(0, 1))
    /\ ipOps = IpCalls(0, "-")

\* ------------------------------------------------------------------- steps
Next ==
    \/ \E o \in OrderIds : BeginUnit(o)
    \/ AttemptPrimary
    \/ AttemptFallback
    \/ CommitEscalation
    \/ FulfilInventory
    \/ PostJournal
    \/ SettleAndCommit
    \/ \E published_ok \in BOOLEAN : PublishOrderFulfilled(published_ok)
    \/ StorageFailure
    \/ MarkOrderFailed
    \/ Tick
    \/ \E period \in Periods, r \in Requesters, settle \in BOOLEAN :
          AllocateCosts(period, r, settle)
    \/ \E id \in ObligationRefs, r \in Requesters : SettlePayrollAp(id, r)
    \/ \E id \in ObligationRefs, r \in Requesters : SettleAp(id, r)

NextOps ==
    \/ \E o \in OrderIds : BeginUnit(o)
    \/ AttemptPrimary
    \/ AttemptFallback
    \/ CommitEscalation
    \/ FulfilInventory
    \/ PostJournal
    \/ SettleAndCommit
    \/ \E published_ok \in BOOLEAN : PublishOrderFulfilled(published_ok)
    \/ StorageFailure
    \/ MarkOrderFailed

NextFin ==
    \/ \E period \in Periods, r \in Requesters, settle \in BOOLEAN :
          AllocateCosts(period, r, settle)
    \/ \E id \in ObligationRefs, r \in Requesters : SettlePayrollAp(id, r)
    \/ \E id \in ObligationRefs, r \in Requesters : SettleAp(id, r)

\* two allocate_costs requests on a ledger no run has touched
NextRuns ==
    \/ \E r \in RunIds, period \in Periods, a \in Requesters, settle \in BOOLEAN :
          RunDelete(r, period, a, settle)
    \/ \E r \in RunIds : RunPost(r)
    \/ \E r \in RunIds : RunCommit(r)

\* settle_ap requests on a ledger of one or three fulfilled orders of equal
\* revenue sharing one cloud record: an allocation run commits while no
\* settlement transaction is open
InitSettles ==
    /\ \E n \in {1, 3} :
          InitFinLedger(FinOrders([o \in OrderIds |-> 6],
                                  [o \in OrderIds |-> IF o <= n THEN 0 ELSE NoTime]))
    /\ \E amount \in 1..MaxCost : costs = {CloudCost(1, NoOrder, amount)}

NextSettles ==
    \/ \E period \in Periods, r \in Requesters, settle \in BOOLEAN :
          SettlesInFlight = {} /\ AllocateCosts(period, r, settle)
    \/ \E s \in SettleCallIds, id \in ObligationRefs, r \in Requesters :
          SettleBegin(s, id, r, "ANY", "AP_SETTLEMENT")
    \/ \E s \in SettleCallIds, id \in ObligationRefs, r \in Requesters :
          SettleBegin(s, id, r, "AUTONOMY_PAYROLL", "PAYROLL_AP_RETRY")
    \/ \E s \in SettleCallIds : SettleSelectForUpdate(s)
    \/ \E s \in SettleCallIds : SettlePost(s)
    \/ \E s \in SettleCallIds : SettleCommit(s)

\* several workers, orders of one item: its position row is missing, at zero
\* or stocked
InitWorkers ==
    /\ \E q \in [OrderIds -> Quantities], price \in Prices :
          orders = [o \in OrderIds |-> OrderRow("PRODUCT", "SKU-1", q[o], price)]
    /\ routing = RoutingOf("ANY", 0, TRUE)
    /\ registry = RegistryOf("OK", "OK")
    /\ \E seed \in SeedRows \cup {PositionRow(0, 0)} : positions = PositionsOf(seed)
    /\ seeded = positions
    /\ horizon = MaxSeq
    /\ costs = {}
    /\ InitRest

NextWorkers ==
    \/ \E w \in WorkerIds, o \in OrderIds : WorkerBegin(w, o)
    \/ \E w \in WorkerIds : WorkerSelectForUpdate(w)
    \/ \E w \in WorkerIds : WorkerInsertPosition(w)
    \/ \E w \in WorkerIds : WorkerFulfilInventory(w)
    \/ \E w \in WorkerIds : WorkerCommit(w)
    \/ \E w \in WorkerIds, published_ok \in BOOLEAN : WorkerPublish(w, published_ok)
    \/ \E w \in WorkerIds : WorkerMarkOrderFailed(w)

NextGov ==
    \/ \E o \in 1..MaxGovOrders, t \in TxnTypes, price \in Prices :
          CreateOrder(o, t, QtyScale, price)
    \/ \E o \in OrderIds, published_ok \in BOOLEAN : DispatchOrderEvent(o, published_ok)
    \/ \E a \in GateActionTypes, amount \in GovThresholds, r \in GovActors :
          SetThreshold(a, amount, r)
    \/ \E a \in GateActionTypes, is_frozen \in BOOLEAN, r \in GovActors :
          SetFreeze(a, is_frozen, r)
    \/ \E e \in 1..(Len(escalations) + 1), decision \in GovDecisions, r \in GovActors :
          DecideEscalation(e, decision, r)

NextInv ==
    \/ \E quantity \in 0..MaxQty, unit_cost \in Prices : CallReceive(quantity, unit_cost)
    \/ \E quantity \in 0..MaxQty : CallIssue(quantity)

Spec == Init /\ [][Next]_vars
SpecOps == InitOps /\ [][NextOps]_vars
SpecInv == InitInv /\ [][NextInv]_vars
SpecFin == InitFin /\ [][NextFin]_vars
SpecGov == InitGov /\ [][NextGov]_vars
SpecWorkers == InitWorkers /\ [][NextWorkers]_vars
SpecRuns == InitFinShare /\ [][NextRuns]_vars
SpecInputs == InitInputs /\ [][NextFin]_vars
SpecSettles == InitSettles /\ [][NextSettles]_vars
\* the ops worker whose skill chain keeps running: execute_skill_plan is
\* straight-line code inside handle_message, so a unit standing in its primary
\* loop, at its fallback or at its escalation takes its next step
SpecChain ==
    /\ InitOps
    /\ [][NextOps]_vars
    /\ WF_vars(AttemptPrimary)
    /\ WF_vars(AttemptFallback)
    /\ WF_vars(CommitEscalation)

\* ---------------------------------------------------------------- properties
LinesOf(o) == SelectSeq(journals, LAMBDA j : j.order_id = o)
RowsOf(o) == SelectSeq(invocations, LAMBDA r : r.order_id = o)
EscalationsOf(o) == SelectSeq(escalations, LAMBDA e : e.reference_id = o)
ReceiptsIn(rows) == SelectSeq(rows, LAMBDA m : m.movement_type = "RECEIPT")
MovedQty(item_code, movement_type) ==
    SumSeq(SelectSeq(movements, LAMBDA m :
               m.item_code = item_code /\ m.movement_type = movement_type), "quantity")
\* a is within half a unit of the quotient n/d, d > 0
NearestTo(a, n, d) == 2 * Abs(a * d - n) <= d

\* C1: in every committed state reached by fulfilments, allocate_costs runs and
\* AP settlements, the journal lines of each order have total debit = total
\* credit.
C1_JournalBalancedPerOrder ==
    \A o \in OrderIds : SumSeq(LinesOf(o), "debit") = SumSeq(LinesOf(o), "credit")

\* a FULFILLED order carrying fulfilment lines, payroll allocation lines and the
\* lines of an AP settlement made by settle_ap / settle_payroll_ap
C1_FulfilledAllocatedSettled ==
    \E o \in OrderIds :
        /\ orders[o].status = "FULFILLED"
        /\ \E i \in 1..Len(journals) : journals[i].order_id = o /\ journals[i].memo.ns = ""
        /\ \E i \in 1..Len(journals) :
              journals[i].order_id = o /\ journals[i].memo.ns = "PAYROLL_ALLOC"
        /\ \E i \in 1..Len(journals) :
              /\ journals[i].order_id = o
              /\ journals[i].memo.ns \in {"AP_SETTLEMENT", "PAYROLL_AP_RETRY"}

\* the unit in flight has a policy with a fallback, its primary skill fails on
\* every attempt and its fallback skill succeeds
PrimaryFailsFallbackSucceeds ==
    /\ unit.pc \in ChainPcs \cup LedgerPcs
    /\ unit.policy.fallback_skill_id # NoSkill
    /\ ~InvokeSkillSucceeds(UnitOrder, unit.policy, unit.policy.primary_skill_id, FALSE)
    /\ InvokeSkillSucceeds(UnitOrder, unit.policy, unit.policy.fallback_skill_id, TRUE)

\* C2: with max_retries = R, a primary skill that always fails and a fallback
\* that always succeeds, the unit records exactly R+1 primary invocations
\* (FAILED, fallback_used = false) followed by exactly one fallback invocation
\* (SUCCESS, fallback_used = true), and the chain ends Succeeded (it goes on to
\* the inventory step and never escalates).
C2_RetriesThenFallback ==
    PrimaryFailsFallbackSucceeds =>
        LET R == unit.policy.max_retries
            rows == unit.tx_invocations
        IN  /\ unit.pc # "escalate"
            /\ unit.pc \in LedgerPcs =>
                  /\ Len(rows) = R + 2
                  /\ \A i \in 1..(R + 1) :
                        /\ rows[i].skill_id = unit.policy.primary_skill_id
                        /\ rows[i].status = SKILL_STATUS_FAILED
                        /\ ~rows[i].fallback_used
                  /\ rows[R + 2].skill_id = unit.policy.fallback_skill_id
                  /\ rows[R + 2].status = SKILL_STATUS_SUCCESS
                  /\ rows[R + 2].fallback_used

\* the chain has just succeeded through the fallback after the largest number
\* of retries a policy can ask for
C2_FallbackAfterMaxRetries ==
    /\ PrimaryFailsFallbackSucceeds
    /\ unit.pc = "inventory"
    /\ unit.policy.max_retries = MAX_RETRIES_LIMIT

\* the first unit of an order has escalated under a policy with max_retries = 0
\* and no fallback
C3_EscalatedWithoutRetry ==
    /\ unit.pc = "failed"
    /\ unit.cause = "escalated"
    /\ deliveries[unit.order_id] = 1
    /\ LET policy == ResolveSkillRoutingPolicy(UnitOrder.transaction_type)
       IN  policy.max_retries = 0 /\ policy.fallback_skill_id = NoSkill

C4_EscalationCommitsNoLedgerActivity ==
    [][(unit.pc = "escalate" /\ unit'.pc = "failed" /\ unit'.cause = "escalated") =>
        /\ Len(escalations') = Len(escalations) + 1
        /\ SubSeq(escalations', 1, Len(escalations)) = escalations
        /\ LET e == escalations'[Len(escalations')]
           IN  /\ e.action_type = unit.policy.escalation_action_type
               /\ e.reference_type = "ORDER"
               /\ e.reference_id = unit.order_id
               /\ e.status = "PENDING"
               /\ e.reason_code = "SKILL_RUNTIME_FAILURE"
        /\ orders'[unit.order_id].status = "FAILED"
        /\ movements' = movements
        /\ positions' = positions
        /\ journals' = journals
        /\ settlements' = settlements]_vars

\* a unit has escalated after its retries and its fallback all failed
C4_EscalatedAfterFallbackFailed ==
    /\ unit.pc = "failed"
    /\ unit.cause = "escalated"
    /\ Len(EscalationsOf(unit.order_id)) >= 1
    /\ \E i \in 1..Len(invocations) :
          /\ invocations[i].order_id = unit.order_id
          /\ invocations[i].fallback_used
          /\ invocations[i].status = SKILL_STATUS_FAILED
    /\ \E i \in 1..Len(invocations) :
          invocations[i].order_id = unit.order_id /\ invocations[i].attempt_no > 1

\* C5 as stated: when the chain succeeded and a later step of the same unit
\* failed (the unit rolled back), every attempt the unit made is still a row of
\* skill_invocations.
C5_AttemptsSurviveRollback ==
    (/\ unit.pc = "failed"
     /\ unit.cause = "storage error after chain"
     /\ deliveries[unit.order_id] = 1) =>
        \A i \in 1..Len(unit.attempted) :
            \E k \in 1..Len(invocations) : invocations[k] = unit.attempted[i]

C7_OnHandNeverNegative ==
    /\ \A i \in Items : positions[i].on_hand >= 0
    /\ unit.cause # "inventory still insufficient"
    /\ (unit.pc \in {"journal", "settle"} /\ UnitOrder.transaction_type = "PRODUCT") =>
          LET order == UnitOrder
              gap == order.quantity - positions[order.item_code].on_hand
              shortfall == IF gap > 0 THEN gap ELSE 0
              receipts == ReceiptsIn(unit.tx_movements)
          IN  /\ Len(receipts) = IF shortfall > 0 THEN 1 ELSE 0
              /\ SumSeq(receipts, "quantity") = shortfall
              /\ unit.tx_position.on_hand >= 0

\* a PRODUCT unit that found part of the quantity in stock has procured the rest
C7_PartialShortfallProcured ==
    /\ unit.pc = "journal"
    /\ UnitOrder.transaction_type = "PRODUCT"
    /\ positions[UnitOrder.item_code].on_hand > 0
    /\ positions[UnitOrder.item_code].on_hand < UnitOrder.quantity

C8_SignedSum ==
    \A i \in Items :
        ~seeded[i].present =>
            positions[i].on_hand = MovedQty(i, "RECEIPT") - MovedQty(i, "ISSUE")

C8_AverageStep ==
    (unit.pc = "settle" /\ unit'.pc = "publish" /\ UnitOrder.transaction_type = "PRODUCT") =>
        LET item == UnitOrder.item_code
            receipts == ReceiptsIn(unit.tx_movements)
        IN  IF receipts = << >>
            THEN positions'[item].avg_cost = positions[item].avg_cost
            ELSE NearestTo(positions'[item].avg_cost,
                           positions[item].on_hand * positions[item].avg_cost
                             + receipts[1].quantity * receipts[1].unit_cost,
                           positions[item].on_hand + receipts[1].quantity)

\* C8: for an item whose position row did not exist initially, on_hand equals
\* the RECEIPT quantities minus the ISSUE quantities of its movements; a unit
\* that receives leaves avg_cost at (on_hand*avg_cost + shortfall*procure_cost)
\* / (on_hand + shortfall) rounded to the amount unit, and a unit that only
\* issues leaves avg_cost unchanged (checked for every item, seeded or not).
C8_MovingAverage == [](C8_SignedSum) /\ [][C8_AverageStep]_vars

\* an item without an initial row has been received and issued
C8_ReceivedAndIssued ==
    \E i \in Items :
        /\ ~seeded[i].present
        /\ positions[i].present
        /\ MovedQty(i, "RECEIPT") > 0
        /\ MovedQty(i, "ISSUE") > 0
        /\ positions[i].avg_cost > 0

\* C9 as stated: after any receive / issue calls with non-negative quantities
\* from quantity_on_hand = 0, quantity_on_hand is not negative after an issue.
C9_NeverNegativeAfterIssue ==
    ipOps.last = "issue" => ip.quantity_on_hand >= 0

\* the journal lines a committing unit appends
C10_Batch == SubSeq(journals', Len(journals) + 1, Len(journals'))

\* the six lines of a batch, given its revenue and cogs
C10_SixLines(batch, order_id, transaction_type, revenue, cogs) ==
    /\ Len(batch) = 6
    /\ \A i \in 1..6 : batch[i].order_id = order_id
    /\ <<batch[1].account, batch[1].debit, batch[1].credit>> = <<"1100", revenue, 0>>
    /\ <<batch[2].account, batch[2].debit, batch[2].credit>> = <<"4000", 0, revenue>>
    /\ <<batch[3].account, batch[3].debit, batch[3].credit>> = <<"5000", cogs, 0>>
    /\ <<batch[4].account, batch[4].debit, batch[4].credit>> =
          <<IF transaction_type = "PRODUCT" THEN "1300" ELSE "2100", 0, cogs>>
    /\ <<batch[5].account, batch[5].debit, batch[5].credit>> = <<"1000", revenue, 0>>
    /\ <<batch[6].account, batch[6].debit, batch[6].credit>> = <<"1100", 0, revenue>>
    /\ SumSeq(batch, "debit") = 2 * revenue + cogs
    /\ SumSeq(batch, "credit") = 2 * revenue + cogs

\* C10 as stated: a successful unit posts exactly the six lines, with revenue =
\* quantity * unit_price, and both totals equal 2*revenue + cogs.
C10_SixLinesExactRevenue ==
    [][(unit.pc = "settle" /\ unit'.pc = "publish") =>
        /\ Len(C10_Batch) = 6
        /\ C10_Batch[1].debit * QtyScale = UnitOrder.quantity * UnitOrder.unit_price
        /\ C10_SixLines(C10_Batch, unit.order_id, UnitOrder.transaction_type,
                        C10_Batch[1].debit, C10_Batch[3].debit)]_vars

\* C10, amended: a successful unit posts exactly the six lines (debit AR,
\* credit Revenue, debit COGS, credit Inventory or Service-Clearing, debit Cash,
\* credit AR), with revenue = quantity * unit_price rounded to the amount unit
\* (4 decimals), and both totals equal 2*revenue + cogs.
C10_SixLinesRoundedRevenue ==
    [][(unit.pc = "settle" /\ unit'.pc = "publish") =>
        /\ Len(C10_Batch) = 6
        /\ NearestTo(C10_Batch[1].debit, UnitOrder.quantity * UnitOrder.unit_price,
                     QtyScale)
        /\ C10_SixLines(C10_Batch, unit.order_id, UnitOrder.transaction_type,
                        C10_Batch[1].debit, C10_Batch[3].debit)]_vars

\* a SERVICE order whose quantity * unit_price is not a whole number of amount
\* units is FULFILLED with six journal lines
C10_FulfilledWithRoundedRevenue ==
    \E o \in OrderIds :
        /\ orders[o].status = "FULFILLED"
        /\ orders[o].transaction_type = "SERVICE"
        /\ (orders[o].quantity * orders[o].unit_price) % QtyScale # 0
        /\ Len(LinesOf(o)) = 6

\* the unit in flight is the end-to-end order (PRODUCT, quantity 2, unit_price
\* 50.00, nothing on hand) and is about to settle and commit
EndToEndUnit ==
    /\ unit.pc = "settle"
    /\ UnitOrder.transaction_type = "PRODUCT"
    /\ UnitOrder.quantity = 2 * QtyScale
    /\ UnitOrder.unit_price = 50 * 10000
    /\ positions[UnitOrder.item_code].on_hand = 0

\* C11: for a PRODUCT order with quantity 2 and unit_price 50.00 on an item with
\* on_hand 0, the committing unit records a RECEIPT of 2 units at unit_cost 30.00
\* and an ISSUE of 2 units, leaves on_hand 0 and avg_cost 30.00, posts COGS 60.00
\* and revenue 100.00, records a Settlement of 100.00 and sets the order FULFILLED.
C11_EndToEnd ==
    [][EndToEndUnit /\ unit'.pc = "publish" =>
        LET o == unit.order_id
            item == UnitOrder.item_code
        IN  /\ movements' = movements \o
                   << MovementRow(o, item, "RECEIPT", 2 * QtyScale, 30 * 10000),
                      MovementRow(o, item, "ISSUE", 2 * QtyScale, 30 * 10000) >>
            /\ positions'[item] = PositionRow(0, 30 * 10000)
            /\ Len(C10_Batch) = 6
            /\ C10_Batch[1].debit = 100 * 10000
            /\ C10_Batch[2].credit = 100 * 10000
            /\ C10_Batch[3].account = COGS_ACCOUNT /\ C10_Batch[3].debit = 60 * 10000
            /\ settlements' = Append(settlements, SettlementRow(o, 100 * 10000))
            /\ orders'[o].status = "FULFILLED"]_vars

\* a fulfilled end-to-end order whose receipt has been recorded
C11_EndToEndFulfilled ==
    /\ orders[1].status = "FULFILLED"
    /\ orders[1].quantity = 2 * QtyScale /\ orders[1].unit_price = 50 * 10000
    /\ \E i \in 1..Len(movements) :
          movements[i] = MovementRow(1, "SKU-1", "RECEIPT", 2 * QtyScale, 30 * 10000)
    /\ \E i \in 1..Len(settlements) : settlements[i] = SettlementRow(1, 100 * 10000)

\* C12 as stated: in the end-to-end scenario the six journal lines posted for the
\* order total 200.00 debit and 200.00 credit.
C12_SixLinesTotal200 ==
    [][EndToEndUnit /\ unit'.pc = "publish" =>
        /\ Len(C10_Batch) = 6
        /\ SumSeq(C10_Batch, "debit") = 200 * 10000
        /\ SumSeq(C10_Batch, "credit") = 200 * 10000]_vars

\* C12 amended: in the end-to-end scenario the six journal lines posted for the
\* order total 260.00 debit and 260.00 credit (2 * revenue + cogs).
C12_SixLinesTotal260 ==
    [][EndToEndUnit /\ unit'.pc = "publish" =>
        /\ Len(C10_Batch) = 6
        /\ SumSeq(C10_Batch, "debit") = 260 * 10000
        /\ SumSeq(C10_Batch, "credit") = 260 * 10000]_vars

\* the committed journal of the end-to-end order: six lines, 260.00 a side
C12_EndToEndPosted ==
    /\ orders[1].quantity = 2 * QtyScale /\ orders[1].unit_price = 50 * 10000
    /\ Len(LinesOf(1)) = 6
    /\ SumSeq(LinesOf(1), "debit") = 260 * 10000
    /\ SumSeq(LinesOf(1), "credit") = 260 * 10000

\* the allocation rows of a period written for one source record
RowsOfSource(rows, period, source_type, source_id) ==
    SelectSeq(rows, LAMBDA a : /\ a.period = period
                               /\ a.source_type = source_type
                               /\ a.source_id = source_id)

\* C13: for every source cost record with a positive amount processed by
\* allocate_costs, the allocated_cost values of the CostAllocation rows written
\* for that record sum exactly to the record's amount.
C13_AllocationsSumToAmount ==
    \A p \in Periods :
        reconciliations[p].present =>
            \A i \in 1..Len(AllocationInputs(p)) :
                LET input == AllocationInputs(p)[i] IN
                input.amount > 0 =>
                    SumSeq(RowsOfSource(allocations, p, input.source_type, input.source_id),
                           "allocated_cost") = input.amount

\* the record of 100.00 that names no order, and a window whose eligible orders
\* are three orders of equal revenue without token usage
RecordOfHundred == CloudCost(1, NoOrder, 100 * 10000)
ThreeEqualOrders(p) ==
    LET eligible == ListFulfilledOrders(p) IN
    /\ RecordOfHundred \in costs
    /\ InWindow(RecordOfHundred.occurred_at, p)
    /\ Len(eligible) = 3
    /\ eligible[1].revenue = eligible[2].revenue /\ eligible[2].revenue = eligible[3].revenue
    /\ \A c \in costs : c.source_type # "TOKEN"

\* C14: a cost record of 100.00 that names no order, allocated across 3 eligible
\* orders of equal revenue (no skill signal), yields exactly three allocation rows
\* 33.3333, 33.3333 and 33.3334, in ascending order id, which sum to 100.00.
C14_ThirdsOfHundred ==
    \A p \in Periods :
        reconciliations[p].present /\ ThreeEqualOrders(p) =>
            LET eligible == ListFulfilledOrders(p)
                rows == RowsOfSource(allocations, p, "CLOUD", RecordOfHundred.id)
            IN  /\ Len(rows) = 3
                /\ \A k \in 1..3 : /\ rows[k].order_id = eligible[k].order_id
                                    /\ rows[k].skill_id = NoSkill
                /\ eligible[1].order_id < eligible[2].order_id
                /\ eligible[2].order_id < eligible[3].order_id
                /\ rows[1].allocated_cost = 333333
                /\ rows[2].allocated_cost = 333333
                /\ rows[3].allocated_cost = 333334
                /\ SumSeq(rows, "allocated_cost") = 100 * 10000

\* the record of 100.00 allocated over three orders of equal, positive revenue
C14_HundredAllocated ==
    \E p \in Periods :
        /\ reconciliations[p].present
        /\ ThreeEqualOrders(p)
        /\ ListFulfilledOrders(p)[1].revenue > 0
        /\ Len(RowsOfSource(allocations, p, "CLOUD", RecordOfHundred.id)) = 3

\* this step is a completed allocate_costs run that directly follows a completed
\* run for the same period (cost records and orders do not change in between)
SecondRunInSequence ==
    /\ response.op = "allocate_costs" /\ response.ok
    /\ response'.op = "allocate_costs" /\ response'.ok
    /\ response'.detail.period = response.detail.period
    /\ seqno' # seqno

RowsOfPeriod(rows, period) == SelectSeq(rows, LAMBDA a : a.period = period)

\* C15: running allocate_costs twice in sequence for the same period with
\* unchanged orders and cost records leaves, after the second run, the same
\* CostAllocation rows and the same reconciliation record as after the first.
C15_RerunSameRowsAndReconciliation ==
    [][SecondRunInSequence =>
        LET p == response.detail.period IN
        /\ RowsOfPeriod(allocations', p) = RowsOfPeriod(allocations, p)
        /\ reconciliations'[p] = reconciliations[p]
        /\ reconciliations'[p].present]_vars

\* two runs for the same period have completed, and the period has rows: every
\* run hands out one number per obligation it creates and one for itself
C15_RanTwice ==
    /\ response.op = "allocate_costs" /\ response.ok
    /\ allocations # << >>
    /\ RowsOfPeriod(allocations, response.detail.period) = allocations
    /\ seqno = 1 + 2 * (Cardinality({allocations[i].order_id : i \in 1..Len(allocations)}) + 1)

\* the journal lines with memo PAYROLL_ALLOC|<period key>|<order>|<tail> of one order
PayrollLines(lines, period, order_id, tail) ==
    SelectSeq(lines, LAMBDA j : /\ j.order_id = order_id
                                /\ j.memo = PayrollMemo(period, order_id, tail))

\* the AUTONOMY_PAYROLL obligations of one order tagged with the period key
PayrollObligations(rows, period, order_id) ==
    SelectSeq(rows, LAMBDA b : /\ b.order_id = order_id
                               /\ b.source_type = "AUTONOMY_PAYROLL"
                               /\ b.counterparty = period)

\* the orders holding a positive allocated total for the period
OrdersWithAllocatedCost(rows, period) ==
    {o \in OrderIds : SumSeq(SelectSeq(rows, LAMBDA a : a.period = period /\ a.order_id = o),
                             "allocated_cost") > 0}

\* C16: after a second allocate_costs run in sequence for the same period, every
\* order with a positive allocated total (an order that receives cost only
\* through a DIRECT_ORDER record while not being eligible included) has exactly
\* one Payroll-Expense debit, one Payroll-Payable credit and one
\* AUTONOMY_PAYROLL obligation tagged with the period key, as after the first.
C16_RerunOnePairAndObligationPerOrder ==
    [][SecondRunInSequence =>
        LET p == response.detail.period IN
        \A o \in OrdersWithAllocatedCost(allocations', p) :
            /\ Len(PayrollLines(journals', p, o, "DEBIT")) = 1
            /\ Len(PayrollLines(journals', p, o, "CREDIT")) = 1
            /\ Len(PayrollObligations(obligations', p, o)) = 1
            /\ PayrollLines(journals', p, o, "DEBIT") = PayrollLines(journals, p, o, "DEBIT")
            /\ PayrollLines(journals', p, o, "CREDIT") = PayrollLines(journals, p, o, "CREDIT")]_vars

\* this step is a completed allocate_costs run for the period
CompletedRun(period) ==
    /\ response'.op = "allocate_costs" /\ response'.ok
    /\ response'.detail.period = period
    /\ seqno' # seqno

\* the period-tagged PAYROLL_ALLOC lines with the given tail, of every order
TaggedLines(lines, period, tail) ==
    SelectSeq(lines, LAMBDA j : /\ j.memo.ns = "PAYROLL_ALLOC" /\ j.memo.period = period
                                /\ j.memo.tail = tail)

\* the period-tagged AUTONOMY_PAYROLL obligations, of every order
TaggedObligations(rows, period) ==
    SelectSeq(rows, LAMBDA b : b.source_type = "AUTONOMY_PAYROLL" /\ b.counterparty = period)

\* C17: after a completed allocate_costs run, nothing an earlier run wrote for
\* the same period key remains: the period's allocation rows are the rows this
\* run wrote, every period-tagged AUTONOMY_PAYROLL obligation was created by
\* this run, and the period-tagged Payroll-Expense debits and Payroll-Payable
\* credits are one each per obligation this run created.
C17_RunLeavesNothingOfEarlierRuns ==
    [][\A p \in Periods : CompletedRun(p) =>
        LET inputs == AllocationInputs(p)
            tagged == TaggedObligations(obligations', p)
        IN  /\ RowsOfPeriod(allocations', p) =
                   Flatten([i \in 1..Len(inputs) |->
                               AllocateInputCost(ListFulfilledOrders(p), p, inputs[i])])
            /\ \A k \in 1..Len(tagged) : tagged[k].id > seqno
            /\ Len(TaggedLines(journals', p, "DEBIT")) = Len(tagged)
            /\ Len(TaggedLines(journals', p, "CREDIT")) = Len(tagged)]_vars

\* the response of the last call is that of a completed settle_ap call on an
\* OPEN obligation with a positive outstanding balance, and this step is
\* another settle_ap call on the same obligation
SettledAgain ==
    /\ response.op = "AP_SETTLEMENT" /\ response.ok
    /\ response.detail.previous_status = "OPEN"
    /\ response.detail.outstanding_before > 0
    /\ \E r \in Requesters : SettleAp(response.detail.ap_obligation_id, r)
    /\ response'.ok

\* C18: when settle_ap is called twice on an OPEN obligation with a positive
\* outstanding balance, the second call reports already_settled = true,
\* outstanding_after = 0 and settled_amount = 0, and writes no subledger entry
\* and no journal line.
C18_SecondSettleIsNoOp ==
    [][SettledAgain =>
        /\ response'.detail.already_settled
        /\ response'.detail.outstanding_after = 0
        /\ response'.detail.settled_amount = 0
        /\ subledger' = subledger
        /\ journals' = journals]_vars

\* the obligation row with the given id
ObligationOf(rows, id) == rows[CHOOSE i \in 1..Len(rows) : rows[i].id = id]

\* C19: a settle_ap call that completes on a non-CANCELLED obligation with a
\* positive outstanding balance X (0.0001 included) posts one PAYMENT_POSTED
\* subledger entry with debit X and balance_after 0 and one journal pair
\* debiting the liability account and crediting Cash by X, marks the
\* obligation SETTLED and reports settled_amount = X and outstanding_after = 0.
C19_SettlePaysWholeBalance ==
    [][\A id \in ObligationRefs \ {0} :
        LET X == CurrentApObligationBalance(subledger, id)
            row == ObligationOf(obligations, id)
        IN  (/\ \E r \in Requesters : SettleAp(id, r)
             /\ response'.ok
             /\ X > 0) =>
            /\ Len(subledger') = Len(subledger) + 1
            /\ SubSeq(subledger', 1, Len(subledger)) = subledger
            /\ LET e == subledger'[Len(subledger')] IN
                   /\ e.ap_obligation_id = id /\ e.entry_type = "PAYMENT_POSTED"
                   /\ e.debit = X /\ e.credit = 0 /\ e.balance_after = 0
            /\ Len(journals') = Len(journals) + 2
            /\ SubSeq(journals', 1, Len(journals)) = journals
            /\ LET d == journals'[Len(journals) + 1]
                   c == journals'[Len(journals) + 2]
               IN  /\ d.account = ApLiabilityAccountForSourceType(row.source_type)
                   /\ d.debit = X /\ d.credit = 0
                   /\ c.account = CASH_ACCOUNT /\ c.debit = 0 /\ c.credit = X
            /\ ObligationOf(obligations', id).status = "SETTLED"
            /\ response'.detail.settled_amount = X
            /\ response'.detail.outstanding_after = 0]_vars

\* the Payroll-Expense debits among the journal lines this step appended after
\* its delete
PostedExpenseDebits(period) ==
    LET eligible == ListFulfilledOrders(period)
        kept == KeptJournals({eligible[i].order_id : i \in 1..Len(eligible)}, period)
        posted == SubSeq(journals', Len(kept) + 1, Len(journals'))
    IN  SumSeq(SelectSeq(posted, LAMBDA j : j.account = PAYROLL_EXPENSE_ACCOUNT), "debit")

RoutingRow(transaction_type, scope) == routing[<<IntentOf(transaction_type), scope>>]

\* no policy, exact or ANY, is configured for the order's transaction type
NotConfiguredFor(o) ==
    /\ ~RoutingRow(orders[o].transaction_type, orders[o].transaction_type).configured
    /\ ~RoutingRow(orders[o].transaction_type, "ANY").configured

\* C21: a unit works under the exact-scope policy of its order's transaction
\* type when one exists for the intent, otherwise under the ANY-scope policy of
\* the same intent; when neither exists the unit fails with "not configured"
\* and no SkillInvocation, escalation, inventory movement, journal line or
\* settlement is committed for the order.
C21_ExactThenAnyElseNotConfigured ==
    /\ unit.pc \in ChainPcs \cup LedgerPcs =>
          LET t == UnitOrder.transaction_type
              exact == RoutingRow(t, t)
              chosen == IF exact.configured THEN exact ELSE RoutingRow(t, "ANY")
          IN  /\ chosen.configured
              /\ unit.policy.intent = chosen.intent
              /\ unit.policy.primary_skill_id = chosen.primary_skill_id
              /\ unit.policy.fallback_skill_id = chosen.fallback_skill_id
              /\ unit.policy.max_retries = chosen.max_retries
              /\ unit.policy.escalation_action_type = chosen.escalation_action_type
    /\ \A o \in OrderIds : NotConfiguredFor(o) =>
          /\ unit.order_id = o /\ unit.pc # "idle" =>
                 unit.pc = "failed" /\ unit.cause = "not configured"
          /\ RowsOf(o) = << >>
          /\ EscalationsOf(o) = << >>
          /\ LinesOf(o) = << >>
          /\ SelectSeq(movements, LAMBDA m : m.order_id = o) = << >>
          /\ SelectSeq(settlements, LAMBDA x : x.order_id = o) = << >>

\* order 1 has failed for want of a policy and left nothing behind, and a unit
\* of another order works under the exact-scope policy, which differs from the
\* ANY-scope policy configured beside it
C21_NotConfiguredThenExactChosen ==
    /\ NotConfiguredFor(1) /\ deliveries[1] > 0 /\ orders[1].status = "FAILED"
    /\ unit.pc \in ChainPcs \cup LedgerPcs
    /\ LET t == UnitOrder.transaction_type IN
          /\ RoutingRow(t, t).configured /\ RoutingRow(t, "ANY").configured
          /\ RoutingRow(t, t) # RoutingRow(t, "ANY")
          /\ unit.policy.max_retries = RoutingRow(t, t).max_retries

\* the subledger entries of one obligation with the given entry type
EntriesOf(entries, ap_obligation_id, entry_type) ==
    SelectSeq(entries, LAMBDA e : /\ e.ap_obligation_id = ap_obligation_id
                                  /\ e.entry_type = entry_type)

\* the period's allocated total of one order in the given currencies
AllocatedTotal(rows, period, order_id, currencies) ==
    SumSeq(SelectSeq(rows, LAMBDA a : /\ a.period = period /\ a.order_id = order_id
                                      /\ a.currency \in currencies),
           "allocated_cost")

\* nothing is on file for the period: no allocation row, no tagged journal
\* line, no tagged obligation
NoPriorRows(period) ==
    /\ RowsOfPeriod(allocations, period) = << >>
    /\ TaggedObligations(obligations, period) = << >>
    /\ SelectSeq(journals, LAMBDA j : j.memo.ns = "PAYROLL_ALLOC" /\ j.memo.period = period)
          = << >>

\* the order has n expense debits, n payable credits and n obligations tagged
\* with the period, and n settlement pairs when settling (none otherwise)
PostedCount(lines, obs, period, order_id, n, settle) ==
    /\ Len(PayrollLines(lines, period, order_id, "DEBIT")) = n
    /\ Len(PayrollLines(lines, period, order_id, "CREDIT")) = n
    /\ Len(PayrollObligations(obs, period, order_id)) = n
    /\ Len(PayrollLines(lines, period, order_id, "AP_SETTLE_DEBIT")) = IF settle THEN n ELSE 0
    /\ Len(PayrollLines(lines, period, order_id, "AP_SETTLE_CREDIT")) = IF settle THEN n ELSE 0

\* the order has an expense debit of T, a payable credit of T and an obligation
\* of amount T in one of the currencies with one recognition entry of
\* balance_after T; the obligation is OPEN when not settling, and SETTLED with
\* one payment entry and a Payable debit / Cash credit pair of T when settling
PostedTotal(lines, obs, entries, period, order_id, currencies, T, settle) ==
    LET HasLine(tail, account, debit, credit) ==
            \E i \in 1..Len(lines) :
                lines[i] = JournalRow(order_id, account, debit, credit,
                                      PayrollMemo(period, order_id, tail))
        mine == PayrollObligations(obs, period, order_id)
    IN  /\ HasLine("DEBIT", PAYROLL_EXPENSE_ACCOUNT, T, 0)
        /\ HasLine("CREDIT", PAYROLL_AP_ACCOUNT, 0, T)
        /\ \E k \in 1..Len(mine) :
              LET b == mine[k]
                  recognized == EntriesOf(entries, b.id, "OBLIGATION_RECOGNIZED")
                  payments == EntriesOf(entries, b.id, "PAYMENT_POSTED")
              IN  /\ b.currency \in currencies /\ b.amount = T
                  /\ b.status = IF settle THEN "SETTLED" ELSE "OPEN"
                  /\ Len(recognized) = 1
                  /\ recognized[1].credit = T /\ recognized[1].balance_after = T
                  /\ Len(payments) = IF settle THEN 1 ELSE 0
                  /\ settle => payments[1].debit = T /\ payments[1].balance_after = 0
        /\ settle => /\ HasLine("AP_SETTLE_DEBIT", PAYROLL_AP_ACCOUNT, T, 0)
                      /\ HasLine("AP_SETTLE_CREDIT", CASH_ACCOUNT, 0, T)

\* C22: after a single allocate_costs run for a period with no prior rows,
\* every order whose allocation rows for the period sum to a positive total T
\* has exactly one Payroll-Expense debit of T, one Payroll-Payable credit of T
\* and one AUTONOMY_PAYROLL obligation of amount T with a recognition entry of
\* balance_after T; an order with no positive total has none; the obligation
\* is OPEN with settle_payroll_ap = false, and SETTLED with a payment entry and
\* a Payable debit / Cash credit pair of T with settle_payroll_ap = true.
C22_OnePostingPerOrder ==
    [][\A p \in Periods, settle \in BOOLEAN :
        (/\ CompletedRun(p)
         /\ NoPriorRows(p)
         /\ \E r \in Requesters : AllocateCosts(p, r, settle)) =>
        \A o \in OrderIds :
            LET T == AllocatedTotal(allocations', p, o, Currencies) IN
            IF T > 0
            THEN /\ PostedCount(journals', obligations', p, o, 1, settle)
                 /\ PostedTotal(journals', obligations', subledger', p, o, Currencies, T,
                                settle)
            ELSE PostedCount(journals', obligations', p, o, 0, settle)]_vars

\* C22 (amended): as C22, per order and currency: each currency in which the
\* order's allocation rows for the period sum to a positive total T has its own
\* debit, credit and obligation of T (with the recognition entry and, when
\* settling, the payment entry and the settlement pair), and the order has no
\* other period-tagged line or obligation.
C22_OnePostingPerOrderAndCurrency ==
    [][\A p \in Periods, settle \in BOOLEAN :
        (/\ CompletedRun(p)
         /\ NoPriorRows(p)
         /\ \E r \in Requesters : AllocateCosts(p, r, settle)) =>
        \A o \in OrderIds :
            LET groups == {c \in Currencies : AllocatedTotal(allocations', p, o, {c}) > 0}
            IN  /\ PostedCount(journals', obligations', p, o, Cardinality(groups), settle)
                /\ \A c \in groups :
                      PostedTotal(journals', obligations', subledger', p, o, {c},
                                  AllocatedTotal(allocations', p, o, {c}), settle)]_vars

\* a run has settled, for one order, an obligation in each of two currencies
C22_SettledInTwoCurrencies ==
    \E p \in Periods, o \in OrderIds :
        LET mine == PayrollObligations(obligations, p, o) IN
        /\ response.op = "allocate_costs" /\ response.ok /\ response.detail.period = p
        /\ Len(mine) = 2
        /\ mine[1].currency # mine[2].currency
        /\ mine[1].status = "SETTLED" /\ mine[2].status = "SETTLED"
        /\ AllocatedTotal(allocations, p, o, {mine[1].currency}) = mine[1].amount
        /\ AllocatedTotal(allocations, p, o, {mine[2].currency}) = mine[2].amount

\* ---------------------------------------------------------------- C23
\* the escalations the gate opened for order o
GateEscalationsOf(o) ==
    {i \in 1..Len(escalations) :
        /\ escalations[i].reference_type = "ORDER"
        /\ escalations[i].reference_id = o
        /\ escalations[i].reason_code = "AMOUNT_THRESHOLD_EXCEEDED"}

OrderCreatedPublished(o) == \E i \in 1..Len(created) : created[i] = o

\* the amount does not exceed the auto-approval threshold of the action type
WithinAutoApproval(action_type, amount) ==
    IF thresholds[action_type].active
    THEN amount <= thresholds[action_type].max_auto_amount
    ELSE (amount + 9999) \div 10000 <= DEFAULT_AUTO_APPROVAL_LIMIT

\* C23: an OrderCreated event is published for an order only after the gate has
\* cleared it: the order was handed to dispatch either at creation, with the
\* action type not frozen, the amount within the threshold and status NEW, or
\* when its PENDING escalation was decided APPROVED while it was
\* PENDING_APPROVAL.  The event is published for an order that is NEW, never for
\* one that is PENDING_APPROVAL or has an escalation decided REJECTED or FROZEN,
\* and no order row appears for a frozen action type.
C23_PublishedOnlyAfterGateCleared ==
    /\ [](\A o \in OrderIds :
            OrderCreatedPublished(o) =>
                /\ orders[o].status \notin {"-", "PENDING_APPROVAL"}
                /\ \A i \in GateEscalationsOf(o) : escalations[i].status = "APPROVED")
    /\ [][/\ created' # created => \E o \in OrderIds : created' = Append(created, o)
          /\ \A o \in OrderIds :
               /\ created' = Append(created, o) =>
                    /\ o \in dispatching
                    /\ ~OrderCreatedPublished(o)
                    /\ orders[o].status = "NEW"
                    /\ \A i \in 1..Len(escalations) :
                          escalations[i].reference_id = o =>
                              escalations[i].status \notin {"REJECTED", "FROZEN"}
               /\ (o \in dispatching' /\ o \notin dispatching) =>
                    \/ /\ orders[o].status = "-"
                       /\ orders'[o].status = "NEW"
                       /\ ~freezes[ActionTypeForTransaction(orders'[o].transaction_type)]
                       /\ WithinAutoApproval(
                              ActionTypeForTransaction(orders'[o].transaction_type),
                              Revenue(orders'[o]))
                       /\ escalations' = escalations
                    \/ /\ orders[o].status = "PENDING_APPROVAL"
                       /\ orders'[o].status = "NEW"
                       /\ \E i \in GateEscalationsOf(o) :
                             /\ escalations[i].status = "PENDING"
                             /\ escalations'[i].status = "APPROVED"
               /\ (orders[o].status = "-" /\ orders'[o].status # "-") =>
                    ~freezes[ActionTypeForTransaction(orders'[o].transaction_type)]
         ]_vars

\* one order published after its escalation was approved, another held back by a
\* rejected escalation, while its action type is frozen
C23_ApprovedPublishedRejectedHeld ==
    \E o, k \in OrderIds :
        /\ OrderCreatedPublished(o)
        /\ \E i \in GateEscalationsOf(o) : escalations[i].status = "APPROVED"
        /\ ~OrderCreatedPublished(k)
        /\ \E i \in GateEscalationsOf(k) : escalations[i].status = "REJECTED"
        /\ freezes[ActionTypeForTransaction(orders[k].transaction_type)]

\* ---------------------------------------------------------------- C24
FulfilledEventsOf(o) == SelectSeq(published, LAMBDA e : e.order_id = o)
SettlementsOf(o) == SelectSeq(settlements, LAMBDA r : r.order_id = o)

\* C24: an OrderFulfilled event is published for an order if and only if a unit
\* for that order has committed with status FULFILLED; it is published after the
\* commit (so a unit standing between its commit and its publish is left aside),
\* and its settled_amount is the amount of the Settlement row of that unit.
C24_PublishedIffCommitted ==
    /\ [](\A o \in OrderIds :
            /\ FulfilledEventsOf(o) # << >> => SettlementsOf(o) # << >>
            /\ (SettlementsOf(o) # << >> /\ ~(unit.pc = "publish" /\ unit.order_id = o)) =>
                  FulfilledEventsOf(o) # << >>)
    /\ [][published' # published =>
             /\ unit.pc = "publish"
             /\ orders[unit.order_id].status = "FULFILLED"
             /\ SettlementsOf(unit.order_id) # << >>
             /\ published' = Append(published,
                   OrderFulfilledEvent(unit.order_id,
                       SettlementsOf(unit.order_id)[Len(SettlementsOf(unit.order_id))].amount))
             /\ published'[Len(published')].settled_amount * QtyScale
                   \in {orders[unit.order_id].quantity * orders[unit.order_id].unit_price + d :
                           d \in -(QtyScale \div 2)..(QtyScale \div 2)}
        ]_vars

\* ---------------------------------------------------------------- C25
\* worker w commits its unit in this step
WorkerCommits(w) == workers[w].pc = "commit" /\ workers'[w].pc = "publish"

\* the row the committing unit worked from is the committed row (none: no row)
ReadTheCommittedRow(w) == workers[w].row = positions[WorkerItem(w)]

\* C25: units running concurrently for different orders of one item are
\* serialized on the item's position row: a committing unit has read the on_hand
\* and avg_cost the previous unit committed (no lost update), and no unit fails
\* because of another one, also when the item had no position row at the start.
C25_SerializedAndNoneFails ==
    /\ [][\A w \in WorkerIds : WorkerCommits(w) => ReadTheCommittedRow(w)]_vars
    /\ [](\A w \in WorkerIds : workers[w].pc # "failed")

\* the two parts of C25 apart: no lost update, whatever the rows on file
C25_NoLostUpdate ==
    [][\A w \in WorkerIds : WorkerCommits(w) => ReadTheCommittedRow(w)]_vars

\* no unit fails when the item's position row exists at the start
C25_NoneFailsOnExistingRow ==
    seeded["SKU-1"].present => \A w \in WorkerIds : workers[w].pc # "failed"

\* two units in flight on the same item, one of them waiting for the other's lock
C25_TwoUnitsOneWaiting ==
    \E w, v \in WorkerIds :
        /\ w # v
        /\ workers[w].pc = "commit" /\ workers[w].holds
        /\ workers[v].pc \in {"select", "insert"}
        /\ WorkerItem(v) = WorkerItem(w)

\* ---------------------------------------------------------------- C26
\* both runs have committed for the period, and each ran its DELETE statements
\* before the other had committed
OverlappedRuns(period) ==
    \A r \in RunIds :
        /\ allocRuns[r].pc = "done" /\ allocRuns[r].ok
        /\ allocRuns[r].period = period
        /\ allocRuns[r].saw = {}

\* what the period's allocation rows of one source record add up to
SourceRecordTotal(rows, period, c) ==
    SumSeq(SelectSeq(rows, LAMBDA a : /\ a.period = period
                                      /\ a.source_type = c.source_type
                                      /\ a.source_id = c.id),
           "allocated_cost")

\* C26: nothing keeps two allocate_costs runs for the same period key apart.
\* When each has deleted before the other committed, both commit, and the
\* ledger then holds the rows of both: the period's allocation rows are the
\* rows of one run followed by the rows of the other, each source record's rows
\* add up to twice what one run allocates of it, and the period-tagged journal
\* pairs and obligations of both runs are all on file.
C26_OverlappedRunsKeepBothPostings ==
    \A period \in Periods :
        OverlappedRuns(period) =>
            /\ allocRuns[1].written = allocRuns[2].written
            /\ RowsOfPeriod(allocations, period) =
                  allocRuns[1].written \o allocRuns[2].written
            /\ \A c \in costs :
                  SourceRecordTotal(allocations, period, c) =
                      2 * SourceRecordTotal(allocRuns[1].written, period, c)
            /\ Len(TaggedLines(journals, period, "DEBIT")) =
                  Len(TaggedLines(allocRuns[1].add_journals, period, "DEBIT"))
                  + Len(TaggedLines(allocRuns[2].add_journals, period, "DEBIT"))
            /\ Len(TaggedObligations(obligations, period)) =
                  Len(allocRuns[1].add_obligations) + Len(allocRuns[2].add_obligations)
            /\ \A o \in OrdersWithAllocatedCost(allocations, period) :
                  /\ Len(PayrollLines(journals, period, o, "DEBIT")) >= 2
                  /\ Len(PayrollLines(journals, period, o, "CREDIT")) >= 2
                  /\ Len(PayrollObligations(obligations, period, o)) >= 2

\* the interleaving of the claim: both runs committed, a source record whose
\* rows add up to more than its amount, an order with two journal pairs and two
\* obligations for the period
C26_SourceRecordAllocatedTwice ==
    \E period \in Periods :
        /\ OverlappedRuns(period)
        /\ \E c \in costs :
              /\ c.source_type \in {"TOKEN", "CLOUD"}
              /\ c.total_cost > 0
              /\ SourceRecordTotal(allocations, period, c) > c.total_cost
        /\ \E o \in OrderIds :
              /\ Len(PayrollLines(journals, period, o, "DEBIT")) = 2
              /\ Len(PayrollLines(journals, period, o, "CREDIT")) = 2
              /\ Len(PayrollObligations(obligations, period, o)) = 2

\* ---------------------------------------------------------------- C27
\* the unit of a SERVICE order commits in this step
ServiceUnitCommits ==
    /\ unit.pc = "settle" /\ unit'.pc = "publish"
    /\ UnitOrder.transaction_type = "SERVICE"

\* what a committing SERVICE unit leaves alone and where its COGS goes, given
\* the COGS it posts
ServiceFrame(cogs) ==
    /\ positions' = positions
    /\ movements' = movements
    /\ unit.tx_movements = << >>
    /\ Len(C10_Batch) = 6
    /\ <<C10_Batch[3].account, C10_Batch[3].debit, C10_Batch[3].credit>> =
          <<COGS_ACCOUNT, cogs, 0>>
    /\ <<C10_Batch[4].account, C10_Batch[4].debit, C10_Batch[4].credit>> =
          <<SERVICE_COST_CLEARING_ACCOUNT, 0, cogs>>
    /\ \A i \in 1..6 : C10_Batch[i].account # INVENTORY_ACCOUNT

NoMovementOfServiceOrders ==
    \A i \in 1..Len(movements) :
        orders[movements[i].order_id].transaction_type # "SERVICE"

\* C27 as stated: fulfilling a SERVICE order leaves every InventoryPosition
\* unchanged and records no InventoryMovement; its COGS is quantity * unit_price
\* * 0.30, credited to the service clearing account instead of Inventory.
C27_ServiceCogsExactRatio ==
    /\ []NoMovementOfServiceOrders
    /\ [][ServiceUnitCommits =>
            /\ ServiceFrame(C10_Batch[3].debit)
            /\ C10_Batch[3].debit * 100 * QtyScale =
                  UnitOrder.quantity * UnitOrder.unit_price * SERVICE_DELIVERY_COST_PCT
         ]_vars

\* C27 amended: fulfilling a SERVICE order leaves every InventoryPosition
\* unchanged and records no InventoryMovement; its COGS is quantity * unit_price
\* * 0.30 rounded to the amount unit (4 decimals), credited to the service
\* clearing account instead of Inventory.
C27_ServiceCogsRoundedRatio ==
    /\ []NoMovementOfServiceOrders
    /\ [][ServiceUnitCommits =>
            /\ ServiceFrame(C10_Batch[3].debit)
            /\ NearestTo(C10_Batch[3].debit,
                         UnitOrder.quantity * UnitOrder.unit_price * SERVICE_DELIVERY_COST_PCT,
                         100 * QtyScale)
         ]_vars

\* a FULFILLED SERVICE order whose COGS was rounded, credited to the clearing
\* account, with no movement and no position row touched
C27_ServiceFulfilledRoundedCogs ==
    \E o \in OrderIds :
        /\ orders[o].transaction_type = "SERVICE"
        /\ orders[o].status = "FULFILLED"
        /\ (orders[o].quantity * orders[o].unit_price * SERVICE_DELIVERY_COST_PCT)
              % (100 * QtyScale) # 0
        /\ \E i \in 1..Len(journals) :
              /\ journals[i].order_id = o
              /\ journals[i].account = SERVICE_COST_CLEARING_ACCOUNT
              /\ journals[i].credit > 0
        /\ movements = << >>
        /\ positions = seeded

\* ---------------------------------------------------------------- C28
\* the policy the unit in progress resolved for its order
UnitPolicy == ResolveSkillRoutingPolicy(orders[unit.order_id].transaction_type)

\* C28: the skill attempts of one unit are primary attempts one after another,
\* then at most one fallback attempt; the fallback comes only after exactly
\* max_retries + 1 failed primary attempts, nothing follows a SUCCESS, no
\* primary attempt follows the fallback attempt, and the attempts are made one
\* at a time (each step of the unit adds at most one, and only while the unit
\* stands in its primary loop or at its fallback).
C28_PrimariesThenOneFallback ==
    /\ [](unit.order_id # NoOrder =>
            LET a == unit.attempted
                n == Len(a)
            IN  \A i \in 1..n :
                    /\ a[i].order_id = unit.order_id
                    /\ a[i].status \in {SKILL_STATUS_SUCCESS, SKILL_STATUS_FAILED}
                    /\ a[i].status = SKILL_STATUS_SUCCESS => i = n
                    /\ ~a[i].fallback_used =>
                          /\ a[i].skill_id = UnitPolicy.primary_skill_id
                          /\ i <= UnitPolicy.max_retries + 1
                    /\ a[i].fallback_used =>
                          /\ a[i].skill_id = UnitPolicy.fallback_skill_id
                          /\ i = n
                          /\ i = UnitPolicy.max_retries + 2
                          /\ \A j \in 1..(i - 1) :
                                /\ ~a[j].fallback_used
                                /\ a[j].status = SKILL_STATUS_FAILED)
    /\ [][unit'.attempted # unit.attempted =>
             \/ unit'.attempted = << >>
             \/ /\ unit.pc \in {"primary", "fallback"}
                /\ Len(unit'.attempted) = Len(unit.attempted) + 1
                /\ SubSeq(unit'.attempted, 1, Len(unit.attempted)) = unit.attempted
                /\ unit'.attempted[Len(unit'.attempted)].fallback_used = (unit.pc = "fallback")
         ]_vars

\* a unit whose two primary attempts failed and whose fallback then succeeded
C28_TwoPrimariesThenFallback ==
    /\ Len(unit.attempted) = 3
    /\ unit.attempted[1].status = SKILL_STATUS_FAILED /\ ~unit.attempted[1].fallback_used
    /\ unit.attempted[2].status = SKILL_STATUS_FAILED /\ ~unit.attempted[2].fallback_used
    /\ unit.attempted[3].status = SKILL_STATUS_SUCCESS /\ unit.attempted[3].fallback_used

\* ---------------------------------------------------------------- C29
\* the unit makes an attempt in this step, on this skill
AttemptStep == unit.pc \in {"primary", "fallback"} /\ unit'.attempted # unit.attempted
AttemptedSkill ==
    IF unit.pc = "primary" THEN unit.policy.primary_skill_id
    ELSE unit.policy.fallback_skill_id

\* the skill fails a check made before it is executed
FailsBeforeExecution(skill_id) ==
    \/ ~registry[skill_id].registered
    \/ registry[skill_id].approval_status # "APPROVED"
    \/ registry[skill_id].capability # unit.policy.capability
    \/ ~(registry[skill_id].required_input_fields \subseteq InputFields)

\* the skill's declared output fields are not all in what the execution returns
FailsOutputCheck(skill_id) ==
    ~(registry[skill_id].required_output_fields \subseteq SimulateOutput(UnitOrder))

\* the attempt is recorded FAILED and takes one attempt of the budget, as an
\* execution failure does
RecordedFailedAndCounted ==
    /\ unit'.tx_invocations = Append(unit.tx_invocations,
           InvocationRow(unit.order_id, AttemptedSkill, unit.attempt_no, SKILL_STATUS_FAILED,
                         unit.pc = "fallback"))
    /\ IF unit.pc = "primary"
       THEN /\ unit'.primary_runs = unit.primary_runs + 1
            /\ unit'.attempt_no = unit.attempt_no + 1
            /\ unit'.pc = IF unit.primary_runs + 1 <= unit.policy.max_retries THEN "primary"
                          ELSE IF unit.policy.fallback_skill_id # NoSkill THEN "fallback"
                          ELSE "escalate"
       ELSE unit'.pc = "escalate"

\* C29: an attempt on a skill that is not registered, not APPROVED, of another
\* capability than the policy's, or with a required input or output field
\* missing is recorded as a FAILED invocation and takes one attempt of the
\* budget like an execution failure; when the registration, approval, capability
\* or input check fails, simulate_skill_execution is not called for the attempt.
C29_VerificationFailureIsAFailedAttempt ==
    [][AttemptStep =>
          /\ (FailsBeforeExecution(AttemptedSkill) \/ FailsOutputCheck(AttemptedSkill)
              \/ SimulateFails(UnitOrder, AttemptedSkill, unit.pc = "fallback"))
                => RecordedFailedAndCounted
          /\ FailsBeforeExecution(AttemptedSkill) =>
                unit'.boundary_calls = unit.boundary_calls
          /\ ~FailsBeforeExecution(AttemptedSkill) =>
                unit'.boundary_calls = unit.boundary_calls + 1
      ]_vars

\* a unit whose primary attempt on a skill that is not APPROVED was recorded
\* FAILED without execution, and whose fallback was executed and failed its
\* output check
C29_RevokedPrimaryThenOutputFailure ==
    /\ Len(unit.attempted) = 2
    /\ registry[unit.attempted[1].skill_id].approval_status \in {"REVOKED", "DRAFT"}
    /\ unit.attempted[1].status = SKILL_STATUS_FAILED
    /\ unit.attempted[2].fallback_used
    /\ unit.attempted[2].status = SKILL_STATUS_FAILED
    /\ ~(registry[unit.attempted[2].skill_id].required_output_fields
            \subseteq SimulateOutput(UnitOrder))
    /\ unit.boundary_calls = 1
    /\ unit.pc = "escalate"

\* ---------------------------------------------------------------- C30
\* the skill_invocations rows a committing unit records, in recording order
RecordedByUnit == SubSeq(invocations', Len(invocations) + 1, Len(invocations'))

\* C30: among the SkillInvocation rows a unit records for its order, attempt_no
\* is strictly increasing in recording order, so no two of them share an
\* attempt_no; the final ESCALATED row written after a failed fallback attempt
\* included.
C30_AttemptNoStrictlyIncreasing ==
    [][invocations' # invocations /\ unit.pc \in {"escalate", "settle"} =>
          \A i, j \in 1..Len(RecordedByUnit) :
              i < j => RecordedByUnit[i].attempt_no < RecordedByUnit[j].attempt_no
      ]_vars

\* the same, leaving aside the ESCALATED row that follows a failed fallback
C30_IncreasingUpToTheFallback ==
    [][invocations' # invocations /\ unit.pc \in {"escalate", "settle"} =>
          \A i, j \in 1..Len(RecordedByUnit) :
              (i < j /\ ~(RecordedByUnit[j].status = SKILL_STATUS_ESCALATED
                          /\ RecordedByUnit[j].fallback_used)) =>
                  RecordedByUnit[i].attempt_no < RecordedByUnit[j].attempt_no
      ]_vars

\* ---------------------------------------------------------------- C31
\* execute_skill_plan is still attempting skills
ChainAttempting == unit.pc \in {"primary", "fallback"}
\* every attempt the unit has made failed
EveryAttemptFailed ==
    \A i \in 1..Len(unit.attempted) : unit.attempted[i].status = SKILL_STATUS_FAILED

\* C31: for every routing policy upsert_skill_routing accepts (max_retries in
\* 0..5) and every pattern of skill successes and failures, execute_skill_plan
\* ends in exactly one of Succeeded or Escalated after at most max_retries + 2
\* attempts, and Escalated is reached only when every attempt made has failed.
\* While attempting, the unit has made fewer than max_retries + 2 attempts, all
\* failed; Succeeded holds a last attempt that succeeded; the chain is left only
\* to Succeeded, to Escalated, or by a failing statement of the transaction;
\* and a chain that is attempting stops attempting.
C31_ChainEndsSucceededOrEscalated ==
    /\ [](ChainAttempting =>
            /\ unit.policy.max_retries \in 0..MAX_RETRIES_LIMIT
            /\ Len(unit.attempted) < unit.policy.max_retries + 2
            /\ EveryAttemptFailed)
    /\ [](unit.pc = "escalate" =>
            /\ Len(unit.attempted) \in 1..(unit.policy.max_retries + 2)
            /\ EveryAttemptFailed)
    /\ [](unit.pc = "inventory" =>
            /\ Len(unit.attempted) \in 1..(unit.policy.max_retries + 2)
            /\ unit.attempted[Len(unit.attempted)].status = SKILL_STATUS_SUCCESS)
    /\ [][ChainAttempting /\ ~ChainAttempting' =>
             \/ unit'.pc = "inventory"
             \/ unit'.pc = "escalate"
             \/ unit'.pc = "failed" /\ unit'.cause = "storage error in chain"
         ]_vars
    /\ (ChainAttempting ~> ~ChainAttempting)

\* a unit under max_retries = 5 that escalates after six failed primary
\* attempts and a failed fallback attempt
C31_EscalatedAfterSevenAttempts ==
    /\ unit.pc = "escalate"
    /\ unit.policy.max_retries = MAX_RETRIES_LIMIT
    /\ Len(unit.attempted) = MAX_RETRIES_LIMIT + 2
    /\ EveryAttemptFailed

\* ---------------------------------------------------------------- C32
\* the ticks a subscription record's own window shares with the period
OverlapTicks(c, period) ==
    (IF c.period_end < period[2] THEN c.period_end ELSE period[2]) -
    (IF c.period_start > period[1] THEN c.period_start ELSE period[1])

\* the inputs allocate_costs built from the cost record c
InputsOfRecord(period, c) ==
    SelectSeq(AllocationInputs(period),
              LAMBDA i : i.source_type = c.source_type /\ i.source_id = c.id)

\* every input comes from a cost record on file
InputsAreRecords(period) ==
    \A k \in 1..Len(AllocationInputs(period)) :
        \E c \in costs : /\ c.source_type = AllocationInputs(period)[k].source_type
                         /\ c.id = AllocationInputs(period)[k].source_id

\* a TOKEN or CLOUD record is an input, at its full amount, exactly when it
\* occurred inside the period
UsageInputsAsStated(period) ==
    \A c \in {x \in costs : x.source_type \in {"TOKEN", "CLOUD"}} :
        IF period[1] <= c.occurred_at /\ c.occurred_at < period[2]
        THEN /\ Len(InputsOfRecord(period, c)) = 1
             /\ InputsOfRecord(period, c)[1].amount = c.total_cost
        ELSE InputsOfRecord(period, c) = << >>

\* the whole seconds a subscription record lasts, and shares with the period
SecondsTotal(c) == NumSeconds(c.period_end - c.period_start)
SecondsShared(c, period) == NumSeconds(OverlapTicks(c, period))

\* what allocate_costs recorded as the period's source total
RecordedSourceTotal ==
    /\ response'.op = "allocate_costs" /\ response'.ok
    /\ reconciliations'[response'.detail.period].source_total =
          SumSeq(AllocationInputs(response'.detail.period), "amount")

\* C32 as stated: for a window [start, end) allocate_costs takes exactly the
\* TOKEN and CLOUD records with start <= occurred_at < end at their full amount,
\* and each SUBSCRIPTION record whose own window overlaps the window at
\* total_cost * overlap / total (of the two durations); one that ends at or
\* before start or begins at or after end contributes nothing.
C32_ProratedByExactRatio ==
    \A period \in Periods :
        /\ InputsAreRecords(period)
        /\ UsageInputsAsStated(period)
        /\ \A c \in {x \in costs : x.source_type = "SUBSCRIPTION"} :
              IF c.period_end > c.period_start /\ OverlapTicks(c, period) > 0
              THEN /\ Len(InputsOfRecord(period, c)) = 1
                   /\ InputsOfRecord(period, c)[1].amount * (c.period_end - c.period_start)
                         = c.total_cost * OverlapTicks(c, period)
              ELSE InputsOfRecord(period, c) = << >>

\* C32 (amended): the TOKEN and CLOUD records are taken as stated.  A
\* SUBSCRIPTION record is an input exactly when its own window lasts at least
\* one whole second and shares at least one whole second with the period, and
\* its amount is total_cost times the ratio of those whole seconds, the ratio
\* rounded to eight decimals and the product to four; it is the full amount
\* when the whole seconds shared are all of the record's, and nothing when the
\* record ends at or before start or begins at or after end.  A successful run
\* records the sum of these amounts as the period's source total.
C32_ProratedByRoundedRatioOfWholeSeconds ==
    /\ [](\A period \in Periods :
            /\ InputsAreRecords(period)
            /\ UsageInputsAsStated(period)
            /\ \A c \in {x \in costs : x.source_type = "SUBSCRIPTION"} :
                  /\ IF SecondsTotal(c) > 0 /\ SecondsShared(c, period) > 0
                     THEN /\ Len(InputsOfRecord(period, c)) = 1
                          /\ InputsOfRecord(period, c)[1].amount =
                                RoundHalfEven(
                                    c.total_cost *
                                    RoundHalfEven(SecondsShared(c, period) * RATIO_SCALE,
                                                  SecondsTotal(c)),
                                    RATIO_SCALE)
                          /\ SecondsShared(c, period) = SecondsTotal(c) =>
                                InputsOfRecord(period, c)[1].amount = c.total_cost
                     ELSE InputsOfRecord(period, c) = << >>
                  /\ (c.period_end <= period[1] \/ c.period_start >= period[2]) =>
                        InputsOfRecord(period, c) = << >>)
    /\ [][(response'.op = "allocate_costs" /\ response'.ok /\ seqno' # seqno) =>
             RecordedSourceTotal]_vars

\* a run over [0, 2) has recorded a source total made of the cloud record and
\* of half of a subscription record of 0.0003 (0.00015, rounded to 0.0002),
\* the token record lying after the window
C32_HalfOfSubscriptionAllocated ==
    /\ response.op = "allocate_costs" /\ response.ok
    /\ response.detail.period = <<0, MaxTime + 1>>
    /\ \E c \in costs : /\ c.source_type = "SUBSCRIPTION" /\ c.total_cost = 3
                        /\ c.period_start = 0 /\ c.period_end = 4
    /\ \E c \in costs : c.source_type = "TOKEN" /\ c.occurred_at = 2
    /\ reconciliations[<<0, MaxTime + 1>>].source_total = 5 + 2

\* ---------------------------------------------------------------- C33
\* the token cost the window holds for an order under a skill, and the skills
\* for which it is positive
TokenCostOf(period, order_id, skill_id) ==
    LET rows == {c \in costs : /\ c.source_type = "TOKEN" /\ c.order_id = order_id
                               /\ c.skill_id = skill_id
                               /\ period[1] <= c.occurred_at /\ c.occurred_at < period[2]}
    IN  SumSeq(SortedSeq(rows, [c \in rows |-> c.id]), "total_cost")
SkillsWithTokenCost(period, order_id) ==
    {sk \in SkillIds : TokenCostOf(period, order_id, sk) > 0}

\* the entries are those of the split the claim describes, but for their sign
SplitAsStated(period, order_id, amount, explicit_skill_id, parts) ==
    LET skills == SkillsWithTokenCost(period, order_id)
    IN  IF explicit_skill_id # NoSkill
        THEN parts = << [key |-> explicit_skill_id, amount |-> amount] >>
        ELSE IF skills = {}
        THEN parts = << [key |-> NoSkill, amount |-> amount] >>
        ELSE /\ Len(parts) = Cardinality(skills)
             /\ {parts[i].key : i \in 1..Len(parts)} = skills
             /\ \A i \in 1..(Len(parts) - 1) :
                   /\ SkillRank(parts[i].key) < SkillRank(parts[i + 1].key)
                   /\ NearestTo(parts[i].amount,
                                amount * TokenCostOf(period, order_id, parts[i].key),
                                SumSeq([k \in 1..Len(parts) |->
                                          [amount |-> TokenCostOf(period, order_id,
                                                                  parts[k].key)]],
                                       "amount"))
             /\ SumSeq(parts, "amount") = amount

\* C33: split_amount_by_skill returns, for a positive per-order amount A, the
\* single entry (skill, A) when the source record names a skill; otherwise one
\* entry per skill with positive token cost for the order in the window, in
\* ascending skill-id order, each but the last the share of A proportional to
\* that cost and the last A minus the others, the entries summing exactly to A
\* with none negative; and the single entry (null, A) when no skill has
\* positive token cost.
C33_SplitSumsToAmountNoneNegative ==
    \A period \in Periods, o \in OrderIds, A \in 1..MaxCost, sk \in {NoSkill} \cup SkillIds :
        /\ SplitAsStated(period, o, A, sk, SplitAmountBySkill(period, o, A, sk))
        /\ \A i \in 1..Len(SplitAmountBySkill(period, o, A, sk)) :
              SplitAmountBySkill(period, o, A, sk)[i].amount >= 0

\* the same without the sign: the entries are as stated and sum to A
C33_SplitSumsToAmount ==
    \A period \in Periods, o \in OrderIds, A \in 1..MaxCost, sk \in {NoSkill} \cup SkillIds :
        SplitAsStated(period, o, A, sk, SplitAmountBySkill(period, o, A, sk))

\* an allocation run has split 0.0002 of order 1 over its four skills
C33_SplitOverFourSkills ==
    /\ response.op = "allocate_costs" /\ response.ok
    /\ Cardinality(SkillsWithTokenCost(response.detail.period, 1)) = 4
    /\ \E i \in 1..Len(allocations) :
          /\ allocations[i].order_id = 1 /\ allocations[i].source_type = "CLOUD"
          /\ allocations[i].skill_id # NoSkill

\* ---------------------------------------------------------------- C34
\* the ISSUE movements of an order
IssuesOf(o) ==
    SelectSeq(movements, LAMBDA m : m.order_id = o /\ m.movement_type = "ISSUE")

\* C34: after any sequence of OrderCreated deliveries for the same order, the
\* order has at most one settlement row, at most one six-line fulfilment
\* journal batch and at most one ISSUE movement, and a fulfilment unit never
\* fulfils (commits FULFILLED for) an order that is already FULFILLED or FAILED.
C34_FulfilledAtMostOnce ==
    /\ [](\A o \in OrderIds :
            /\ Len(SettlementsOf(o)) <= 1
            /\ Len(LinesOf(o)) <= 6
            /\ Len(IssuesOf(o)) <= 1)
    /\ [][(unit.pc = "settle" /\ unit'.pc = "publish") =>
             orders[unit.order_id].status \notin {"FULFILLED", "FAILED"}]_vars

\* each delivery of an order that is not settled yet leaves at most one more
\* settlement: the rows are doubled only by a unit run on a settled order
C34_OneSettlementPerCommittedUnit ==
    [][\A o \in OrderIds :
          Len(SettlementsOf(o))' <= Len(SettlementsOf(o)) + 1]_vars

\* ---------------------------------------------------------------- C35
\* C35: FULFILLED is a terminal order status: once an order's fulfilment unit
\* has committed FULFILLED, no later operation (a repeated delivery whose unit
\* fails, mark_order_failed, an escalation decision) changes its status, so an
\* order with status FAILED never has fulfilment journal lines or a settlement.
C35_FulfilledIsTerminal ==
    /\ [][\A o \in OrderIds :
             orders[o].status = "FULFILLED" => orders'[o].status = "FULFILLED"]_vars
    /\ [](\A o \in OrderIds :
             orders[o].status = "FAILED" =>
                 /\ SettlementsOf(o) = << >>
                 /\ LinesOf(o) = << >>)

\* an order is FAILED only after a unit for it has failed or escalated: the
\* status is never set FAILED by anything but a unit of that order
C35_FailedOnlyByItsOwnUnit ==
    [][\A o \in OrderIds :
          (orders[o].status # "FAILED" /\ orders'[o].status = "FAILED") =>
              unit.order_id = o /\ unit.pc \in {"failed", "escalate"}]_vars

\* ---------------------------------------------------------------- C36
\* the obligation was settled by the allocate_costs run that created it: its
\* recognition entry and its payment entry carry the same posted_at
SettledImmediately(id) ==
    \E i \in 1..Len(subledger), j \in 1..Len(subledger) :
        /\ subledger[i].ap_obligation_id = id /\ subledger[i].entry_type = "OBLIGATION_RECOGNIZED"
        /\ subledger[j].ap_obligation_id = id /\ subledger[j].entry_type = "PAYMENT_POSTED"
        /\ subledger[i].posted_at = subledger[j].posted_at

\* C36: every obligation with status SETTLED has an outstanding balance of 0 as
\* computed by current_ap_obligation_balance (latest entry by posted_at, then
\* id); this holds for obligations settled immediately by allocate_costs, so a
\* later settle_ap on such an obligation reports already_settled = true and
\* posts no second payment.
C36_SettledHasZeroBalance ==
    /\ [](\A i \in 1..Len(obligations) :
            obligations[i].status = "SETTLED" =>
                CurrentApObligationBalance(subledger, obligations[i].id) = 0)
    /\ [][\A id \in ObligationRefs :
             (/\ SettledImmediately(id)
              /\ \E r \in Requesters : SettleAp(id, r)
              /\ response'.ok) =>
                 /\ response'.detail.already_settled
                 /\ subledger' = subledger
                 /\ journals' = journals]_vars

\* when the payment entry's id sorts after the recognition entry's, the balance
\* of an obligation settled immediately is 0 and settle_ap posts nothing more
C36_ZeroBalanceWhenPaymentSortsLast ==
    /\ [](\A i \in 1..Len(obligations) :
            (/\ obligations[i].status = "SETTLED"
             /\ SettledImmediately(obligations[i].id)
             /\ \A j \in 1..Len(subledger), k \in 1..Len(subledger) :
                   (/\ subledger[j].ap_obligation_id = obligations[i].id
                    /\ subledger[k].ap_obligation_id = obligations[i].id
                    /\ subledger[j].entry_type = "OBLIGATION_RECOGNIZED"
                    /\ subledger[k].entry_type = "PAYMENT_POSTED") =>
                       subledger[j].id < subledger[k].id) =>
                CurrentApObligationBalance(subledger, obligations[i].id) = 0)

\* ---------------------------------------------------------------- C37
\* no run has completed for a period other than the whole horizon
OnlyTheWholeHorizonAllocated ==
    \A p \in Periods : p # <<0, MaxTime + 1>> => ~reconciliations[p].present

\* the Cash credited by the AP settlement lines of an order (the immediate
\* settlements of allocate_costs and those of settle_payroll_ap and settle_ap),
\* and the Payroll-Expense debited for it
CashCreditedFor(o) ==
    SumSeq(SelectSeq(journals, LAMBDA j :
               /\ j.order_id = o /\ j.account = CASH_ACCOUNT
               /\ j.memo.ns \in {"PAYROLL_ALLOC", "PAYROLL_AP_RETRY", "AP_SETTLEMENT"}),
           "credit")
ExpenseDebitedFor(o) ==
    SumSeq(SelectSeq(journals, LAMBDA j :
               j.order_id = o /\ j.account = PAYROLL_EXPENSE_ACCOUNT), "debit")

\* C37: after any sequence of allocate_costs runs (settling or not) and
\* settle_payroll_ap / settle_ap calls for one period, the Cash credited by the
\* payroll AP settlement lines of an order never exceeds the Payroll-Expense
\* debited for that order.
C37_CashPaidWithinExpense ==
    OnlyTheWholeHorizonAllocated =>
        \A o \in OrderIds : CashCreditedFor(o) <= ExpenseDebitedFor(o)

\* ---------------------------------------------------------------- C38
\* this step is an allocate_costs run that completed, for the period recorded
\* in its response
RunCompletes == response'.op = "allocate_costs" /\ response'.ok /\ seqno' # seqno
RunPeriod == response'.detail.period

\* the journal lines the run inserted: those after the lines its DELETE left
RunLines ==
    SubSeq(journals',
           Len(KeptJournals({ListFulfilledOrders(RunPeriod)[i].order_id :
                                i \in 1..Len(ListFulfilledOrders(RunPeriod))}, RunPeriod)) + 1,
           Len(journals'))
\* the Payroll-Expense debits among them
RunExpenseDebits ==
    SelectSeq(RunLines, LAMBDA j : j.account = PAYROLL_EXPENSE_ACCOUNT /\ j.debit > 0)

\* C38: in every reconciliation record written by a (non-concurrent)
\* allocate_costs run, journal_total equals allocated_total: every allocation
\* row written has allocated_cost > 0, and each (order, currency) group of the
\* period's rows gets a Payroll-Expense debit equal to the sum of its rows (one
\* debit per group, the debits summing to journal_total).
C38_JournalTotalIsAllocatedTotal ==
    /\ [](\A i \in 1..Len(allocations) : allocations[i].allocated_cost > 0)
    /\ [][RunCompletes =>
             \E debits \in {RunExpenseDebits}, rows \in {RowsOfPeriod(allocations', RunPeriod)} :
             /\ reconciliations'[RunPeriod].present
             /\ reconciliations'[RunPeriod].journal_total =
                   reconciliations'[RunPeriod].allocated_total
             /\ reconciliations'[RunPeriod].allocated_total = SumSeq(rows, "allocated_cost")
             /\ reconciliations'[RunPeriod].journal_total = SumSeq(debits, "debit")
             /\ \A o \in OrderIds :
                   /\ Len(SelectSeq(debits, LAMBDA j : j.order_id = o)) =
                         Cardinality({c \in Currencies :
                                         AllocatedTotal(rows, RunPeriod, o, {c}) > 0})
                   /\ \A c \in Currencies :
                         AllocatedTotal(rows, RunPeriod, o, {c}) > 0 =>
                             \E k \in 1..Len(debits) :
                                 debits[k] =
                                     JournalRow(o, PAYROLL_EXPENSE_ACCOUNT,
                                                AllocatedTotal(rows, RunPeriod, o, {c}),
                                                0, PayrollMemo(RunPeriod, o, "DEBIT"))
         ]_vars

\* a run has recorded equal journal and allocated totals over rows of one
\* order in two currencies
C38_TwoCurrencyGroupsPosted ==
    /\ response.op = "allocate_costs" /\ response.ok
    /\ reconciliations[response.detail.period].present
    /\ reconciliations[response.detail.period].journal_total > 0
    /\ reconciliations[response.detail.period].journal_total =
          reconciliations[response.detail.period].allocated_total
    /\ \E o \in OrderIds :
          /\ AllocatedTotal(allocations, response.detail.period, o, {"EUR"}) > 0
          /\ AllocatedTotal(allocations, response.detail.period, o, {"USD"}) > 0

\* ---------------------------------------------------------------- C39
\* the request is one allocate_costs refuses: no FULFILLED order has its
\* fulfilled_at in [start, end), or the period is empty or reversed, or the
\* requester is not a finops actor
RefusedRequest(period, requested_by_agent_id) ==
    \/ ~\E o \in OrderIds : /\ orders[o].status = "FULFILLED"
                            /\ orders[o].fulfilled_at # NoTime
                            /\ period[1] <= orders[o].fulfilled_at
                            /\ orders[o].fulfilled_at < period[2]
    \/ period[2] <= period[1]
    \/ requested_by_agent_id \notin FINOPS_ACTOR_IDS

\* C39: when the window contains no FULFILLED order with fulfilled_at in
\* [start, end), or period_end <= period_start, or the requester is not a
\* finops actor, allocate_costs returns an error and changes nothing: no
\* allocation row, journal line, obligation (or subledger entry) or
\* reconciliation record is deleted, inserted or updated; every other request
\* is served.
C39_RefusedRunChangesNothing ==
    [][\A period \in Periods, r \in Requesters, settle \in BOOLEAN :
          /\ (/\ response'.op = "allocate_costs"
              /\ RefusedRequest(period, r)
              /\ AllocateCosts(period, r, settle)) =>
                /\ ~response'.ok
                /\ allocations' = allocations
                /\ journals' = journals
                /\ obligations' = obligations
                /\ subledger' = subledger
                /\ reconciliations' = reconciliations
          /\ (/\ response'.op = "allocate_costs" /\ ~response'.ok
              /\ ~RefusedRequest(period, r)) =>
                ~AllocateCosts(period, r, settle)]_vars

\* a request was refused while the results of an earlier run for the whole
\* horizon are on file
C39_RefusedAfterAnEarlierRun ==
    /\ response.op = "allocate_costs" /\ ~response.ok
    /\ reconciliations[<<0, MaxTime + 1>>].present
    /\ RowsOfPeriod(allocations, <<0, MaxTime + 1>>) # << >>
    /\ TaggedObligations(obligations, <<0, MaxTime + 1>>) # << >>


\* ------------------------------------------------------------------- C40
\* call s commits a settle_ap transaction that was open together with the
\* settle_ap transaction of call t on the same obligation; t committed first
\* and had found the obligation OPEN
SecondOfTwoSettles(s, t) ==
    /\ s # t
    /\ settleCalls[s].pc = "posted" /\ settleCalls'[s].pc = "done"
    /\ settleCalls[t].pc = "done" /\ settleCalls[t].response.ok
    /\ settleCalls[s].ap_obligation_id = settleCalls[t].ap_obligation_id
    /\ settleCalls[s].memo_namespace = "AP_SETTLEMENT"
    /\ settleCalls[t].memo_namespace = "AP_SETTLEMENT"
    /\ s \in settleCalls[t].overlaps \/ t \in settleCalls[s].overlaps
    /\ settleCalls[t].response.detail.previous_status = "OPEN"

PaymentEntries(entries, ap_obligation_id) ==
    {i \in 1..Len(entries) : /\ entries[i].ap_obligation_id = ap_obligation_id
                             /\ entries[i].entry_type = "PAYMENT_POSTED"}

SettleLines(lines, ap_obligation_id, tail) ==
    {i \in 1..Len(lines) : /\ lines[i].memo.ref = ap_obligation_id
                           /\ lines[i].memo.tail = tail}

\* what the two calls leave behind and report, t having taken the lock first
PaidOnceBetween(s, t) ==
    LET id == settleCalls[s].ap_obligation_id
        first == settleCalls'[t].response.detail
        second == settleCalls'[s].response.detail
        row == obligations'[settleCalls[t].row]
    IN  /\ Cardinality(PaymentEntries(subledger', id)) = 1
        /\ Cardinality(SettleLines(journals', id, "AP_SETTLE_DEBIT")) = 1
        /\ Cardinality(SettleLines(journals', id, "AP_SETTLE_CREDIT")) = 1
        /\ \A i \in SettleLines(journals', id, "AP_SETTLE_DEBIT") :
              /\ journals'[i].debit = row.amount
              /\ journals'[i].account = ApLiabilityAccountForSourceType(row.source_type)
        /\ \A i \in SettleLines(journals', id, "AP_SETTLE_CREDIT") :
              /\ journals'[i].credit = row.amount
              /\ journals'[i].account = CASH_ACCOUNT
        /\ ~first.already_settled /\ first.settled_amount = row.amount
        /\ second.already_settled /\ second.settled_amount = 0
        /\ settleCalls'[s].response.ok

\* C40: two settle_ap calls running concurrently on the same OPEN obligation
\* post exactly one PAYMENT_POSTED entry and one liability debit / Cash credit
\* pair in total; one call reports already_settled = false with the full
\* settled amount, the other already_settled = true with settled_amount = 0
C40_ConcurrentSettlesPayOnce ==
    [][\A s \in SettleCallIds, t \in SettleCallIds :
          SecondOfTwoSettles(s, t) => PaidOnceBetween(s, t)]_vars

\* the same for an obligation whose balance is above 0.0001
C40_ConcurrentSettlesPayOnceAboveEpsilon ==
    [][\A s \in SettleCallIds, t \in SettleCallIds :
          (/\ SecondOfTwoSettles(s, t)
           /\ settleCalls[t].response.detail.outstanding_before > AP_SETTLE_EPSILON)
          => PaidOnceBetween(s, t)]_vars

\* the second call waited for the row lock of the first and both have committed
C40_SecondCallWaitedAndFoundSettled ==
    \E s \in SettleCallIds, t \in SettleCallIds :
        /\ s # t
        /\ settleCalls[s].pc = "done" /\ settleCalls[t].pc = "done"
        /\ settleCalls[s].ap_obligation_id = settleCalls[t].ap_obligation_id
        /\ settleCalls[s].memo_namespace = "AP_SETTLEMENT"
        /\ settleCalls[t].memo_namespace = "AP_SETTLEMENT"
        /\ t \in settleCalls[s].overlaps
        /\ settleCalls[t].response.detail.previous_status = "OPEN"
        /\ settleCalls[t].response.detail.settled_amount > AP_SETTLE_EPSILON
        /\ settleCalls[s].response.ok
        /\ settleCalls[s].response.detail.already_settled

====
